---------------------------- MODULE Spec2Model ----------------------------
(***************************************************************************)
(* Chat-driven todo backend: the agent orchestration loop                  *)
(* (AgentService.process_user_message), the chat request handler           *)
(* (send_message), the conversation store (conversation_service) and the   *)
(* task store (TaskService, REST routes, MCP tool handlers).               *)
(*                                                                         *)
(* Strings are sequences of one-character strings, so that strip() and     *)
(* len() are computed.  Exceptions are modelled by the text str(e) gives.  *)
(* Timestamps are readings of one clock `now` that Tick advances.          *)
(***************************************************************************)
EXTENDS Integers, Sequences, FiniteSets, TLC

VARIABLES now, tasks, nextTaskId, convs, msgs, req, view, taskOp, translated, limiter

vars == <<now, tasks, nextTaskId, convs, msgs, req, view, taskOp, translated, limiter>>

-----------------------------------------------------------------------------
(* Bounds of the model *)

MaxClock == 2
MaxTasks == 2
MaxCalls == 2
MaxConvs == 2
MaxMsgs == 4
MaxMsgsSeq == 2
MaxMsgsUsers == 3
MaxHistory == 102
MaxPosts == 3
RateLimit == 2
WindowSeconds == 2

-----------------------------------------------------------------------------
(* Values *)

Users == {"A", "B"}
\* Optional[T]: None, or Some(x)
None == << >>
Some(x) == <<x>>
Val(o) == o[1]
\* "no exception"
NoError == "-"
TaskIds == 1 .. MaxTasks
ConvIds == 1 .. MaxConvs

\* limits set by the code
TitleMax == 255
ChatMessageMax == 5000
ContentMax == 50000
HistoryLimit == 100
ContextWindow == 10
DescriptionMax == 2000

Chars(n, c) == [i \in 1 .. n |-> c]

NonSpace(s) == {i \in 1 .. Len(s) : s[i] # " "}

SetMin(S) == CHOOSE x \in S : \A y \in S : x <= y
SetMax(S) == CHOOSE x \in S : \A y \in S : x >= y

\* str.strip()
Strip(s) ==
    IF NonSpace(s) = {} THEN << >>
    ELSE SubSeq(s, SetMin(NonSpace(s)), SetMax(NonSpace(s)))

\* the last n elements of a list: lst[-n:]
LastN(lst, n) ==
    IF Len(lst) <= n THEN lst ELSE SubSeq(lst, Len(lst) - n + 1, Len(lst))

Put(f, k, v) == [x \in DOMAIN f \cup {k} |-> IF x = k THEN v ELSE f[x]]
Drop(f, k) == [x \in DOMAIN f \ {k} |-> f[x]]

\* the elements of a finite set of task ids as a list, newest created_at first
RECURSIVE OrderDesc(_, _)
OrderDesc(S, store) ==
    IF S = {} THEN << >>
    ELSE LET top == CHOOSE x \in S :
                       \A y \in S : \/ store[x].created_at > store[y].created_at
                                    \/ /\ store[x].created_at = store[y].created_at
                                       /\ x >= y
         IN  <<top>> \o OrderDesc(S \ {top}, store)

\* query.offset(o).limit(l)
Page(lst, o, l) ==
    IF o >= Len(lst) THEN << >>
    ELSE SubSeq(lst, o + 1, IF o + l > Len(lst) THEN Len(lst) ELSE o + l)

-----------------------------------------------------------------------------
(* Exception texts, as str(e) gives them *)

E_TitleRequired == "Title is required and cannot be empty"
E_TitleTooLong == "Title must be 255 characters or less"
E_TaskNotFound == "Task <id> not found or access denied."
E_AlreadyCompleted == "Task <id> is already completed."
E_TitleEmpty == "Title cannot be empty."
E_NoFields == "No valid fields provided to update."
E_Database == "(psycopg2.OperationalError) server closed the connection unexpectedly"
E_ToolTitleRequired == "Title is required for add_task"
E_TaskIdRequired == "task_id is required for <tool>"
E_BadUuid == "badly formed hexadecimal UUID string"
E_UnknownTool == "Unknown tool: <name>"
E_JsonDecode == "Expecting value: line 1 column 1 (char 0)"
E_ContentEmpty == "Message content cannot be empty"
E_ContentTooLong == "Message content exceeds maximum length of 50000 characters"
E_ConvNotFound == "Conversation not found or user not authorized"

-----------------------------------------------------------------------------
(* Task store: TaskService of services/task_service.py *)

\* a call's outcome: the exception text (NoError when it returns), the store it
\* leaves committed, and the value it returns
Outcome(e, store, r) == [err |-> e, tasks |-> store, ret |-> r]

task_to_dict(id, task) ==
    [id |-> id, title |-> task.title, description |-> task.description,
     is_completed |-> task.is_completed,
     created_at |-> task.created_at, updated_at |-> task.updated_at]

\* Task(user_id, title, description): both timestamps are default factories,
\* read one after the other (tc, tu)
NewTask(user_id, title, description, tc, tu) ==
    [user_id |-> user_id, title |-> title, description |-> description,
     is_completed |-> FALSE, created_at |-> tc, updated_at |-> tu]

create_task(store, user_id, id, title, description, tc, tu, dbFail) ==
    IF title = None \/ Len(Val(title)) = 0 \/ Len(Strip(Val(title))) = 0
    THEN Outcome(E_TitleRequired, store, None)
    ELSE IF Len(Strip(Val(title))) > TitleMax
    THEN Outcome(E_TitleTooLong, store, None)
    ELSE IF dbFail THEN Outcome(E_Database, store, None)
    ELSE LET task == NewTask(user_id, Strip(Val(title)), description, tc, tu)
         IN  Outcome(NoError, Put(store, id, task), task_to_dict(id, task))

get_tasks(store, user_id, completed, page, page_size) ==
    LET p == IF page < 1 THEN 1 ELSE page
        ps == IF page_size < 1 \/ page_size > 100 THEN 20 ELSE page_size
        match == {i \in DOMAIN store :
                     /\ store[i].user_id = user_id
                     /\ completed # None => store[i].is_completed = Val(completed)}
        total == Cardinality(match)
        rows == Page(OrderDesc(match, store), (p - 1) * ps, ps)
    IN  Outcome(NoError, store,
                [success |-> TRUE,
                 tasks |-> [k \in 1 .. Len(rows) |-> task_to_dict(rows[k], store[rows[k]])],
                 page |-> p, page_size |-> ps, total |-> total,
                 total_pages |-> IF total > 0 THEN (total + ps - 1) \div ps ELSE 0])

\* a faulty variant: the rows of the query WHERE id = task_id, whoever owns them
_get_user_task_AnyUser(store, user_id, task_id) ==
    {i \in DOMAIN store : i = task_id}

\* TaskService._get_user_task: the rows of the query
\* WHERE id = task_id AND user_id = user_id (empty: "not found or access denied")
_get_user_task(store, user_id, task_id) ==
    {i \in DOMAIN store : i = task_id /\ store[i].user_id = user_id}

complete_task(store, user_id, task_id, t, dbFail) ==
    IF _get_user_task(store, user_id, task_id) = {}
    THEN Outcome(E_TaskNotFound, store, None)
    ELSE IF store[task_id].is_completed
    THEN Outcome(E_AlreadyCompleted, store, None)
    ELSE IF dbFail THEN Outcome(E_Database, store, None)
    ELSE LET task == [store[task_id] EXCEPT !.is_completed = TRUE, !.updated_at = t]
         IN  Outcome(NoError, Put(store, task_id, task),
                     [success |-> TRUE, task_id |-> task_id,
                      message |-> "Task marked as completed.",
                      task |-> task_to_dict(task_id, task)])

update_task(store, user_id, task_id, title, description, is_completed, t, dbFail) ==
    IF _get_user_task(store, user_id, task_id) = {}
    THEN Outcome(E_TaskNotFound, store, None)
    ELSE IF title # None /\ Len(Strip(Val(title))) = 0
    THEN Outcome(E_TitleEmpty, store, None)
    ELSE IF title # None /\ Len(Strip(Val(title))) > TitleMax
    THEN Outcome(E_TitleTooLong, store, None)
    ELSE IF title = None /\ description = None /\ is_completed = None
    THEN Outcome(E_NoFields, store, None)
    ELSE IF dbFail THEN Outcome(E_Database, store, None)
    ELSE LET old == store[task_id]
             task == [old EXCEPT
                        !.title = IF title # None THEN Strip(Val(title)) ELSE @,
                        !.description = IF description # None THEN description ELSE @,
                        !.is_completed = IF is_completed # None THEN Val(is_completed) ELSE @,
                        !.updated_at = t]
         IN  Outcome(NoError, Put(store, task_id, task), task_to_dict(task_id, task))

delete_task(store, user_id, task_id, dbFail) ==
    IF _get_user_task(store, user_id, task_id) = {}
    THEN Outcome(E_TaskNotFound, store, None)
    ELSE IF dbFail THEN Outcome(E_Database, store, None)
    ELSE Outcome(NoError, Drop(store, task_id),
                 [success |-> TRUE, task_id |-> task_id,
                  message |-> "Task deleted successfully."])

-----------------------------------------------------------------------------
(* Error translator: the six user-facing strings of translate_mcp_error *)

M_Authentication == "Your authentication token expired. Please log in again."
M_Authorization == "I don't see that task in your list."
M_NotFound == "I couldn't find the task you're looking for."
M_Validation == "That doesn't seem right. Can you try again?"
M_Database == "I'm having trouble reaching the database. Please try again in a moment."
M_Generic == "Something went wrong. Please try again later."

TranslatorStrings ==
    {M_Authentication, M_Authorization, M_NotFound, M_Validation, M_Database, M_Generic}

\* the keywords of the error kinds, as character sequences (SPACED: written
\* with a space in place of the underscore)
Keyword ==
    [AUTHENTICATION |-> <<"A", "U", "T", "H", "E", "N", "T", "I", "C", "A", "T", "I", "O", "N">>,
     UNAUTHORIZED |-> <<"U", "N", "A", "U", "T", "H", "O", "R", "I", "Z", "E", "D">>,
     AUTHORIZATION |-> <<"A", "U", "T", "H", "O", "R", "I", "Z", "A", "T", "I", "O", "N">>,
     FORBIDDEN |-> <<"F", "O", "R", "B", "I", "D", "D", "E", "N">>,
     NOT_FOUND |-> <<"N", "O", "T", "_", "F", "O", "U", "N", "D">>,
     NOT_FOUND_SPACED |-> <<"N", "O", "T", " ", "F", "O", "U", "N", "D">>,
     VALIDATION |-> <<"V", "A", "L", "I", "D", "A", "T", "I", "O", "N">>,
     BAD_REQUEST |-> <<"B", "A", "D", "_", "R", "E", "Q", "U", "E", "S", "T">>,
     BAD_REQUEST_SPACED |-> <<"B", "A", "D", " ", "R", "E", "Q", "U", "E", "S", "T">>,
     DATABASE |-> <<"D", "A", "T", "A", "B", "A", "S", "E">>,
     CONNECTION |-> <<"C", "O", "N", "N", "E", "C", "T", "I", "O", "N">>]

Lowercase == <<"a", "b", "c", "d", "e", "f", "g", "h", "i", "j", "k", "l", "m", "n", "o", "p", "q", "r", "s", "t", "u", "v", "w", "x", "y", "z">>
Uppercase == <<"A", "B", "C", "D", "E", "F", "G", "H", "I", "J", "K", "L", "M", "N", "O", "P", "Q", "R", "S", "T", "U", "V", "W", "X", "Y", "Z">>

\* str.upper()
Upper(s) ==
    [i \in 1 .. Len(s) |->
        IF \E k \in 1 .. Len(Lowercase) : Lowercase[k] = s[i]
        THEN Uppercase[CHOOSE k \in 1 .. Len(Lowercase) : Lowercase[k] = s[i]]
        ELSE s[i]]

\* str.lower()
Lower(s) ==
    [i \in 1 .. Len(s) |->
        IF \E k \in 1 .. Len(Uppercase) : Uppercase[k] = s[i]
        THEN Lowercase[CHOOSE k \in 1 .. Len(Uppercase) : Uppercase[k] = s[i]]
        ELSE s[i]]

\* sub in s
Contains(sub, s) ==
    \E i \in 0 .. Len(s) - Len(sub) : SubSeq(s, i + 1, i + Len(sub)) = sub

translate_mcp_error(error_code, error_message) ==
    LET error_code_upper == Upper(error_code)
    IN  IF Contains(Keyword.AUTHENTICATION, error_code_upper)
           \/ Contains(Keyword.UNAUTHORIZED, error_code_upper)
        THEN M_Authentication
        ELSE IF Contains(Keyword.AUTHORIZATION, error_code_upper)
                \/ Contains(Keyword.FORBIDDEN, error_code_upper)
        THEN M_Authorization
        ELSE IF Contains(Keyword.NOT_FOUND, error_code_upper)
                \/ Contains(Keyword.NOT_FOUND_SPACED, error_code_upper)
        THEN M_NotFound
        ELSE IF Contains(Keyword.VALIDATION, error_code_upper)
                \/ Contains(Keyword.BAD_REQUEST_SPACED, error_code_upper)
        THEN M_Validation
        ELSE IF Contains(Keyword.DATABASE, error_code_upper)
                \/ Contains(Keyword.CONNECTION, error_code_upper)
        THEN M_Database
        ELSE M_Generic

\* inputs: kinds made of one or two words joined by "_", in upper or lower case
KindWords ==
    {Keyword.AUTHENTICATION, Keyword.UNAUTHORIZED, Keyword.AUTHORIZATION, Keyword.FORBIDDEN, Keyword.NOT_FOUND,
     Keyword.NOT_FOUND_SPACED, Keyword.VALIDATION, Keyword.BAD_REQUEST, Keyword.BAD_REQUEST_SPACED, Keyword.DATABASE,
     Keyword.CONNECTION, <<"E", "R", "R", "O", "R">>, <<"T", "I", "M", "E", "O", "U", "T">>}

Kinds ==
    LET upper == KindWords \cup {<< >>}
                   \cup {a \o <<"_">> \o b : a \in KindWords, b \in KindWords}
    IN  upper \cup {Lower(k) : k \in upper}

\* a call of translate_mcp_error
Translate ==
    /\ \E error_code \in Kinds, error_message \in {<<"x">>} :
          translated' = Some([kind |-> error_code,
                              text |-> translate_mcp_error(error_code, error_message)])
    /\ UNCHANGED <<now, tasks, nextTaskId, convs, msgs, req, view, taskOp, limiter>>

-----------------------------------------------------------------------------
(* Tool calls of a model response *)

\* a task_id argument: a well-formed UUID string naming row `id`, or a string
\* that UUID() rejects
Uuid(n) == [wf |-> TRUE, id |-> n]
NotUuid == [wf |-> FALSE, id |-> 0]

\* the decoded arguments: each key is None when the model left it out
Params(title, description, task_id, is_completed) ==
    [title |-> title, description |-> description, task_id |-> task_id,
     is_completed |-> is_completed, completed |-> None,
     page |-> None, page_size |-> None]

NoParams == Params(None, None, None, None)

\* tool_call.function.arguments is text; valid = json.loads accepts it
ToolCall(name, valid, obj) == [name |-> name, valid |-> valid, arguments |-> obj]

\* inputs: the tool calls a model response may carry
ToolCallChoices ==
    {ToolCall("add_task", TRUE, Params(Some(<<"a">>), None, None, None)),
     ToolCall("add_task", TRUE, Params(Some(<<" ">>), None, None, None)),
     ToolCall("add_task", FALSE, NoParams),
     ToolCall("list_tasks", TRUE, NoParams),
     ToolCall("complete_task", TRUE, Params(None, None, Some(Uuid(1)), None)),
     ToolCall("purge_tasks", TRUE, NoParams)}

CoreToolCalls ==
    {ToolCall("add_task", TRUE, Params(Some(<<"a">>), None, None, None)),
     ToolCall("add_task", FALSE, NoParams),
     ToolCall("complete_task", TRUE, Params(None, None, Some(Uuid(1)), None))}

FollowUpChoices == {ToolCall("complete_task", TRUE, Params(None, None, Some(Uuid(1)), None))}

\* json.loads(tool_call.function.arguments)
json_loads(call) ==
    IF call.valid THEN [err |-> NoError, value |-> call.arguments]
    ELSE [err |-> E_JsonDecode, value |-> NoParams]

\* json.dumps(result): the text of a result mapping
json_dumps(result) == [json |-> result]

Failure(msg) == [success |-> FALSE, error |-> msg]

IsFailure(result) == "error" \in DOMAIN result

\* AgentService._execute_tool: every exception of the dispatch is caught and
\* returned as {"success": False, "error": str(e)}.  The value is the pair
\* (committed task store, result mapping).
_execute_tool(store, tool_name, parameters, user_id, newId, tc, tu, dbFail) ==
    LET done(o) == [tasks |-> o.tasks,
                    result |-> IF o.err = NoError THEN o.ret ELSE Failure(o.err)]
        fail(msg) == [tasks |-> store, result |-> Failure(msg)]
        tid == parameters.task_id
    IN  CASE tool_name = "add_task" ->
               IF parameters.title = None \/ Len(Val(parameters.title)) = 0
               THEN fail(E_ToolTitleRequired)
               ELSE done(create_task(store, user_id, newId, parameters.title,
                                     parameters.description, tc, tu, dbFail))
          [] tool_name = "list_tasks" ->
               done(get_tasks(store, user_id, parameters.completed,
                              IF parameters.page = None THEN 1 ELSE Val(parameters.page),
                              IF parameters.page_size = None THEN 20
                              ELSE Val(parameters.page_size)))
          [] tool_name = "complete_task" ->
               IF tid = None THEN fail(E_TaskIdRequired)
               ELSE IF ~Val(tid).wf THEN fail(E_BadUuid)
               ELSE done(complete_task(store, user_id, Val(tid).id, tu, dbFail))
          [] tool_name = "update_task" ->
               IF tid = None THEN fail(E_TaskIdRequired)
               ELSE IF ~Val(tid).wf THEN fail(E_BadUuid)
               ELSE done(update_task(store, user_id, Val(tid).id, parameters.title,
                                     parameters.description, parameters.is_completed,
                                     tu, dbFail))
          [] tool_name = "delete_task" ->
               IF tid = None THEN fail(E_TaskIdRequired)
               ELSE IF ~Val(tid).wf THEN fail(E_BadUuid)
               ELSE done(delete_task(store, user_id, Val(tid).id, dbFail))
          [] OTHER -> fail(E_UnknownTool)

-----------------------------------------------------------------------------
(* Conversation store: services/conversation_service.py *)

Message(conversation_id, user_id, role, content, tool_calls, created_at) ==
    [conversation_id |-> conversation_id, user_id |-> user_id, role |-> role,
     content |-> content, tool_calls |-> tool_calls, created_at |-> created_at]

\* a faulty variant: the row is stored without its owner
Conversation_Unowned(user_id, title, tc, tu) ==
    [user_id |-> "-", title |-> title, created_at |-> tc, updated_at |-> tu]

\* Conversation(user_id, title): both timestamps are default factories
Conversation(user_id, title, tc, tu) ==
    [user_id |-> user_id, title |-> title, created_at |-> tc, updated_at |-> tu]

\* a faulty variant: the rows WHERE id = conversation_id, whoever owns them
get_conversation_AnyUser(cs, conversation_id, user_id) ==
    {c \in DOMAIN cs : c = conversation_id}

\* get_conversation: the rows WHERE id = conversation_id AND user_id = user_id
get_conversation(cs, conversation_id, user_id) ==
    {c \in DOMAIN cs : c = conversation_id /\ cs[c].user_id = user_id}

verify_user_owns_conversation(cs, conversation_id, user_id) ==
    get_conversation(cs, conversation_id, user_id) # {}

\* the indices of a set of stored messages, oldest created_at first (rows of
\* one created_at in the order they were stored)
OrderAsc(S, ms) ==
    LET rank == [x \in S |->
                    Cardinality({y \in S : \/ ms[y].created_at < ms[x].created_at
                                           \/ /\ ms[y].created_at = ms[x].created_at
                                              /\ y < x}) + 1]
    IN  [k \in 1 .. Cardinality(S) |-> CHOOSE x \in S : rank[x] = k]

\* a faulty variant: no ORDER BY, the rows come in the order they were stored
get_conversation_messages_Unordered(ms, conversation_id, limit, offset) ==
    LET rows == SelectSeq([i \in 1 .. Len(ms) |-> i],
                          LAMBDA i : ms[i].conversation_id = conversation_id)
        page == Page(rows, offset, limit)
    IN  [k \in 1 .. Len(page) |-> ms[page[k]]]

\* get_conversation_messages: no user filter, ORDER BY created_at ASC,
\* OFFSET offset LIMIT limit
get_conversation_messages(ms, conversation_id, limit, offset) ==
    LET rows == OrderAsc({i \in 1 .. Len(ms) : ms[i].conversation_id = conversation_id}, ms)
        page == Page(rows, offset, limit)
    IN  [k \in 1 .. Len(page) |-> ms[page[k]]]

\* add_message up to session.add(conversation): the validation, the ownership
\* query and the two pending writes (tm: Message.created_at, tu: updated_at)
add_message_pending(cs, conversation_id, user_id, role, content, tool_calls, tm, tu) ==
    IF Len(Strip(content)) = 0
    THEN [err |-> E_ContentEmpty, pending |-> None]
    ELSE IF Len(Strip(content)) > ContentMax
    THEN [err |-> E_ContentTooLong, pending |-> None]
    ELSE IF get_conversation(cs, conversation_id, user_id) = {}
    THEN [err |-> E_ConvNotFound, pending |-> None]
    ELSE [err |-> NoError,
          pending |-> Some([message |-> Message(conversation_id, user_id, role,
                                                Strip(content), tool_calls, tm),
                            updated_at |-> tu])]

\* a faulty variant: the message is left in the session and never committed
CommitMessages_Deferred(ms, pending) == ms

\* session.commit() of add_message: INSERT the message and UPDATE the
\* conversation row with the pending updated_at, in one transaction
CommitMessages(ms, pending) == Append(ms, pending.message)

CommitConversations(cs, pending) ==
    [cs EXCEPT ![pending.message.conversation_id].updated_at = pending.updated_at]

-----------------------------------------------------------------------------
(* Chat request handler (send_message) and agent (process_user_message) *)

Workers == {1, 2}

D_Empty == "I didn't catch that. What would you like to do with your tasks?"
D_TooLong == "That message is too long. Please use fewer than 5000 characters."
D_ConvNotFound == "Conversation not found or access denied"
D_Database == "I'm having trouble connecting to the database. This might be temporary. Please try again in a moment."
D_Failed == "Failed to process chat message. Please try again."
D_Unprocessable == "<422 validation errors>"
D_Ok == "-"

SystemPrompt == "You are a friendly and helpful task management assistant. ..."

\* "I'm here to help with your tasks!"
DefaultDirect ==
    <<"I", "'", "m", " ", "h", "e", "r", "e", " ", "t", "o", " ", "h", "e", "l", "p", " ", "w", "i", "t", "h", " ", "y", "o", "u", "r", " ", "t", "a", "s", "k", "s", "!">>
\* "I've completed the action."
DefaultFinal ==
    <<"I", "'", "v", "e", " ", "c", "o", "m", "p", "l", "e", "t", "e", "d", " ", "t", "h", "e", " ", "a", "c", "t", "i", "o", "n", ".">>

\* inputs: message bodies and model texts
ChatMessages ==
    {<<"h", "i", " ">>, << >>, <<" ">>, Chars(ChatMessageMax + 1, "a")}

ModelContents == {None, Some(<<"o", "k">>), Some(<<" ">>)}

Idle ==
    [pc |-> "idle", user |-> "-", message |-> << >>, given_id |-> None,
     conversation_id |-> None,
     history |-> << >>, role |-> "-", pending |-> None, messages |-> << >>,
     requested |-> << >>, idx |-> 0, tool_calls_data |-> << >>,
     response |-> None, content |-> None, modelCalls |-> 0,
     modelFailed |-> FALSE, tasksBefore |-> << >>, status |-> 0, detail |-> D_Ok]

InFlight == {w \in Workers : req[w].pc \notin {"idle", "responded"}}

\* raise HTTPException(status, detail) out of the handler
Reply(rec, status, detail) == [rec EXCEPT !.pc = "responded", !.status = status, !.detail = detail]

\* the timestamp a second utcnow() reads after one that read `now`
LaterReads == {t \in {now, now + 1} : t <= MaxClock}

\* ChatRequest validation (a body it refuses is answered 422 by the framework
\* and never reaches the handler), then send_message lines 197-249: the two
\* length checks, the conversation lookup or creation, and the history load.  A
\* request is taken only while the bounded tables have room for the two
\* messages and the MaxCalls tasks it may store.
Handle(r, room, Bodies, Senders) ==
    /\ req[r].pc = "idle"
    /\ Len(msgs) + 2 * (Cardinality(InFlight) + 1) <= room
    /\ nextTaskId + MaxCalls <= MaxTasks + 1
    /\ \E user \in Senders, cid \in {None} \cup {Some(c) : c \in ConvIds},
          raw \in Bodies, tu \in LaterReads :
          LET message == Strip(raw)
              rec == [Idle EXCEPT !.user = user, !.message = message, !.given_id = cid]
              newId == Cardinality(DOMAIN convs) + 1
              title == IF Len(message) > 50
                       THEN SubSeq(message, 1, 50) \o <<".", ".", ".">>
                       ELSE message
          IN  IF Len(raw) < 1 \/ Len(raw) > ChatMessageMax \/ Len(Strip(raw)) = 0
              THEN /\ req' = [req EXCEPT ![r] =
                                     Reply([Idle EXCEPT !.user = user, !.message = raw],
                                           422, D_Unprocessable)]
                   /\ tu = now
                   /\ UNCHANGED <<convs, now>>
              ELSE IF Len(message) = 0
              THEN /\ req' = [req EXCEPT ![r] = Reply(rec, 400, D_Empty)]
                   /\ tu = now
                   /\ UNCHANGED <<convs, now>>
              ELSE IF Len(message) > ChatMessageMax
              THEN /\ req' = [req EXCEPT ![r] = Reply(rec, 400, D_TooLong)]
                   /\ tu = now
                   /\ UNCHANGED <<convs, now>>
              ELSE IF cid # None
              THEN /\ tu = now
                   /\ UNCHANGED <<convs, now>>
                   /\ IF ~verify_user_owns_conversation(convs, Val(cid), user)
                      THEN req' = [req EXCEPT ![r] =
                                     Reply([rec EXCEPT !.conversation_id = cid], 404, D_ConvNotFound)]
                      ELSE req' = [req EXCEPT ![r] =
                                     [rec EXCEPT !.pc = "add_message", !.role = "user",
                                                 !.conversation_id = cid,
                                                 !.history = get_conversation_messages(
                                                                msgs, Val(cid), HistoryLimit, 0)]]
              ELSE /\ newId <= MaxConvs
                   /\ convs' = Put(convs, newId, Conversation(user, title, now, tu))
                   /\ now' = tu
                   /\ req' = [req EXCEPT ![r] =
                                [rec EXCEPT !.pc = "add_message", !.role = "user",
                                            !.conversation_id = Some(newId),
                                            !.history = get_conversation_messages(
                                                           msgs, newId, HistoryLimit, 0)]]
    /\ UNCHANGED <<tasks, nextTaskId, msgs, view, taskOp, translated>>

\* a POST /api/chat of any authenticated user, the rate limiter switched off
\* (CHAT_RATE_LIMIT=0)
SendMessage_Receive(r, room, Bodies) ==
    /\ Handle(r, room, Bodies, Users)
    /\ UNCHANGED limiter

\* add_message lines 87-123, called for the user message (send_message 252)
\* and for the assistant message (send_message 288); ValueError becomes 400
AddMessage_Begin(r) ==
    /\ req[r].pc = "add_message"
    /\ \E tu \in LaterReads :
          LET rec == req[r]
              content == IF rec.role = "user" THEN rec.message ELSE Val(rec.content)
              tool_calls == IF rec.role = "assistant" /\ Len(rec.tool_calls_data) > 0
                            THEN Some(rec.tool_calls_data) ELSE None
              res == add_message_pending(convs, Val(rec.conversation_id), rec.user,
                                         rec.role, content, tool_calls, now, tu)
          IN  IF res.err # NoError
              THEN /\ req' = [req EXCEPT ![r] = Reply(rec, 400, res.err)]
                   /\ tu = now
                   /\ UNCHANGED now
              ELSE /\ req' = [req EXCEPT ![r].pc = "commit", ![r].pending = res.pending]
                   /\ now' = tu
    /\ UNCHANGED <<tasks, nextTaskId, convs, msgs, view, taskOp, translated, limiter>>

\* add_message lines 125-132: the commit succeeds
AddMessage_Commit(r) ==
    /\ req[r].pc = "commit"
    /\ msgs' = CommitMessages(msgs, Val(req[r].pending))
    /\ convs' = CommitConversations(convs, Val(req[r].pending))
    /\ req' = [req EXCEPT ![r] =
                 IF req[r].role = "user"
                 THEN [req[r] EXCEPT !.pc = "model_call", !.pending = None,
                                     !.tasksBefore = tasks]
                 ELSE [Reply(req[r], 200, D_Ok) EXCEPT !.pending = None]]
    /\ UNCHANGED <<now, tasks, nextTaskId, view, taskOp, translated, limiter>>

\* add_message lines 136-141: the commit raises a SQLAlchemyError, nothing is
\* written; send_message lines 329-341 answer 500
AddMessage_Abort(r) ==
    /\ req[r].pc = "commit"
    /\ req' = [req EXCEPT ![r] = [Reply(req[r], 500, D_Database) EXCEPT !.pending = None]]
    /\ UNCHANGED <<now, tasks, nextTaskId, convs, msgs, view, taskOp, translated, limiter>>

\* a model response: choices[0].message
Response(content, tool_calls) == [content |-> content, tool_calls |-> tool_calls]

RECURSIVE SeqsUpTo(_, _)
\* the lists over S of length at most n
SeqsUpTo(S, n) ==
    IF n = 0 THEN {<< >>}
    ELSE LET shorter == SeqsUpTo(S, n - 1)
         IN  shorter \cup {Append(q, x) : q \in {p \in shorter : Len(p) = n - 1}, x \in S}

\* process_user_message lines 371-386: system prompt, the last 10 history
\* entries (role and content only), the new user message
BuildContext(history, user_message) ==
    LET recent == LastN(history, ContextWindow)
    IN  <<[role |-> "system", content |-> SystemPrompt]>>
        \o [k \in 1 .. Len(recent) |-> [role |-> recent[k].role, content |-> recent[k].content]]
        \o <<[role |-> "user", content |-> user_message]>>

\* a faulty variant: the follow-up response's tool calls start another round
AfterFinalResponse_Loop(response) ==
    IF Len(response.tool_calls) > 0 THEN "tools" ELSE "add_message"

\* where process_user_message goes after the follow-up response (lines
\* 463-468): always on to the return, whatever that response requests
AfterFinalResponse(response) == "add_message"

\* process_user_message lines 371-400 and 470-479: the first model call.  An
\* exception of the client leaves through send_message lines 329-347.
ModelCall(r, Calls, Contents) ==
    /\ req[r].pc = "model_call"
    /\ LET rec == [req[r] EXCEPT !.messages = BuildContext(req[r].history, req[r].message),
                                 !.modelCalls = 1]
       IN  \/ req' = [req EXCEPT ![r] = Reply([rec EXCEPT !.modelFailed = TRUE], 500, D_Failed)]
           \/ \E content \in Contents, calls \in SeqsUpTo(Calls, MaxCalls) :
                 LET response == Response(content, calls)
                 IN  /\ Len(calls) > 0 => content = None
                     /\ IF Len(calls) > 0
                        THEN req' = [req EXCEPT ![r] =
                                       [rec EXCEPT !.pc = "tools", !.response = Some(response),
                                                   !.requested = calls, !.idx = 0]]
                        ELSE req' = [req EXCEPT ![r] =
                                       [rec EXCEPT !.pc = "add_message", !.role = "assistant",
                                                   !.response = Some(response),
                                                   !.content = IF content = None \/ Len(Val(content)) = 0
                                                               THEN Some(DefaultDirect) ELSE content]]
    /\ UNCHANGED <<now, tasks, nextTaskId, convs, msgs, view, taskOp, translated, limiter>>

\* process_user_message lines 401-460, one iteration of the loop over
\* message.tool_calls.  json.loads is outside the try: its JSONDecodeError (a
\* ValueError) leaves the loop and the handler answers 400 with str(e).
ExecuteToolCall(r) ==
    /\ req[r].pc = "tools"
    /\ \E dbFail \in BOOLEAN, tu \in LaterReads :
          LET rec == req[r]
              tool_call == rec.requested[rec.idx + 1]
              tool_name == tool_call.name
              loaded == json_loads(tool_call)
              parameters == loaded.value
              run == _execute_tool(tasks, tool_name, parameters, rec.user,
                                   nextTaskId, now, tu, dbFail)
              result == run.result
              created == nextTaskId \in DOMAIN run.tasks
          IN  IF loaded.err # NoError
              THEN /\ req' = [req EXCEPT ![r] = Reply(rec, 400, loaded.err)]
                   /\ dbFail = FALSE /\ tu = now
                   /\ UNCHANGED <<tasks, nextTaskId, now>>
              ELSE /\ tool_name = "add_task" => nextTaskId <= MaxTasks
                   /\ tool_name # "add_task" => tu = now
                   /\ tasks' = run.tasks
                   /\ nextTaskId' = IF created THEN nextTaskId + 1 ELSE nextTaskId
                   /\ now' = tu
                   /\ req' = [req EXCEPT ![r] =
                                [rec EXCEPT
                                   !.tool_calls_data =
                                       Append(@, [tool |-> tool_name, parameters |-> parameters,
                                                  result |-> result]),
                                   !.messages =
                                       @ \o <<[role |-> "assistant",
                                               content |-> IF Val(rec.response).content = None
                                                           THEN << >>
                                                           ELSE Val(Val(rec.response).content),
                                               tool_calls |-> <<tool_call>>],
                                              [role |-> "tool", tool_call_id |-> rec.idx + 1,
                                               content |-> json_dumps(result)]>>,
                                   !.idx = rec.idx + 1,
                                   !.pc = IF rec.idx + 1 = Len(rec.requested)
                                          THEN "final_call" ELSE "tools"]]
    /\ UNCHANGED <<convs, msgs, view, taskOp, translated, limiter>>

\* process_user_message lines 462-468 and 475-479: the follow-up model call,
\* made without tools; whatever tool calls its response carries are not read
FinalModelCall(r, Calls) ==
    /\ req[r].pc = "final_call"
    /\ LET rec == [req[r] EXCEPT !.modelCalls = @ + 1]
       IN  \/ req' = [req EXCEPT ![r] = Reply([rec EXCEPT !.modelFailed = TRUE], 500, D_Failed)]
           \/ \E content \in ModelContents, calls \in SeqsUpTo(Calls, 1) :
                 LET response == Response(content, calls)
                     next == AfterFinalResponse(response)
                 IN  req' = [req EXCEPT ![r] =
                               [rec EXCEPT !.pc = next,
                                           !.role = IF next = "add_message" THEN "assistant" ELSE @,
                                           !.response = Some(response),
                                           !.requested = IF next = "tools" THEN calls ELSE @,
                                           !.idx = IF next = "tools" THEN 0 ELSE @,
                                           !.content = IF content = None \/ Len(Val(content)) = 0
                                                       THEN Some(DefaultFinal) ELSE content]]
    /\ UNCHANGED <<now, tasks, nextTaskId, convs, msgs, view, taskOp, translated, limiter>>

\* the response has been sent; the worker takes the next request
Respond(r) ==
    /\ req[r].pc = "responded"
    /\ req' = [req EXCEPT ![r] = Idle]
    /\ UNCHANGED <<now, tasks, nextTaskId, convs, msgs, view, taskOp, translated, limiter>>

Tick ==
    /\ now < MaxClock
    /\ now' = now + 1
    /\ UNCHANGED <<tasks, nextTaskId, convs, msgs, req, view, taskOp, translated, limiter>>

-----------------------------------------------------------------------------
(* Rate limiter: RateLimitMiddleware of api/middleware/rate_limit.py, in front
   of the routes, and the credentials the authentication layer reads *)

\* the first segment of every token jwt.encode(..., algorithm="HS256") makes:
\* the base64url text of {"alg":"HS256","typ":"JWT"}
JwtHeader ==
    <<"e", "y", "J", "h", "b", "G", "c", "i", "O", "i", "J", "I", "U", "z", "I", "1", "N", "i", "I", "s", "I", "n", "R", "5", "c", "C", "I", "6", "I", "k", "p", "X", "V", "C", "J", "9">>

\* the access token of user u: header, payload naming u, signature
Token(u) == JwtHeader \o <<".", u, ".", "s">>

Bearer == <<"B", "e", "a", "r", "e", "r", " ">>

\* an HTTP request: the Authorization header and the two cookies, None when absent
HttpRequest(method, path, authorization, access_token, better_auth_session) ==
    [method |-> method, path |-> path, authorization |-> authorization,
     access_token |-> access_token, better_auth_session |-> better_auth_session]

\* s.startswith(prefix)
StartsWith(s, prefix) == Len(s) >= Len(prefix) /\ SubSeq(s, 1, Len(prefix)) = prefix

\* token[:32] if len(token) > 32 else token
KeyLength == 32
KeyOf(token) == IF Len(token) > KeyLength THEN SubSeq(token, 1, KeyLength) ELSE token

\* RateLimitMiddleware._extract_user_key ("" when no carrier is found)
_extract_user_key(request) ==
    IF request.authorization # None /\ StartsWith(Val(request.authorization), Bearer)
    THEN KeyOf(SubSeq(Val(request.authorization), Len(Bearer) + 1,
                      Len(Val(request.authorization))))
    ELSE IF request.better_auth_session # None /\ Len(Val(request.better_auth_session)) > 0
    THEN KeyOf(Val(request.better_auth_session))
    ELSE << >>

\* RateLimitMiddleware.dispatch up to call_next or the raise: the buckets it
\* leaves and what it does with the request ("forwarded": call_next without
\* counting, "counted": call_next after the append, "limited": the raise)
dispatch(requests, rate_limit, window_seconds, request, t) ==
    LET user_key == _extract_user_key(request)
        cutoff_time == t - window_seconds
        old == IF user_key \in DOMAIN requests THEN requests[user_key] ELSE << >>
        kept == SelectSeq(old, LAMBDA ts : ts > cutoff_time)
    IN  IF ~StartsWith(request.path, <<"/api/chat">>) \/ request.method # "POST"
           \/ rate_limit = 0 \/ Len(user_key) = 0
        THEN [requests |-> requests, key |-> user_key, outcome |-> "forwarded"]
        ELSE IF Len(kept) >= rate_limit
        THEN [requests |-> Put(requests, user_key, kept), key |-> user_key,
              outcome |-> "limited"]
        ELSE [requests |-> Put(requests, user_key, Append(kept, t)), key |-> user_key,
              outcome |-> "counted"]

\* AuthService.decode_token: the user a token of this service names
decode_token(token) ==
    IF \E u \in Users : token = Token(u)
    THEN Some(CHOOSE u \in Users : token = Token(u)) ELSE None

\* get_current_user_from_betterauth: the access_token cookie, else the
\* better-auth-session cookie, else the Authorization header, without "Bearer "
get_current_user(request) ==
    LET auth_cookie ==
            IF request.access_token # None /\ Len(Val(request.access_token)) > 0
            THEN request.access_token
            ELSE IF request.better_auth_session # None
                    /\ Len(Val(request.better_auth_session)) > 0
            THEN request.better_auth_session
            ELSE request.authorization
    IN  IF auth_cookie = None \/ Len(Val(auth_cookie)) = 0 THEN None
        ELSE IF StartsWith(Val(auth_cookie), Bearer)
        THEN decode_token(SubSeq(Val(auth_cookie), Len(Bearer) + 1, Len(Val(auth_cookie))))
        ELSE decode_token(Val(auth_cookie))

\* inputs: a POST /api/chat of user u with its token in one carrier, or with none
Carriers == {"authorization", "access_token", "better-auth-session", "none"}
ChatPost(u, carrier) ==
    HttpRequest("POST", <<"/api/chat">>,
                IF carrier = "authorization" THEN Some(Bearer \o Token(u)) ELSE None,
                IF carrier = "access_token" THEN Some(Token(u)) ELSE None,
                IF carrier = "better-auth-session" THEN Some(Token(u)) ELSE None)

D_Internal == "An unexpected error occurred"
D_Unauthenticated == "Your session has expired. Please log in again."

\* the buckets (self.requests) and the record of the POSTs the middleware has seen
NoLimiter == [requests |-> << >>, log |-> << >>]

\* a POST /api/chat arrives at the middleware stack: dispatch, then (call_next)
\* the authentication dependency and send_message.  The HTTPException that
\* dispatch raises is raised outside the routes' exception handling and is
\* answered by the application's handler for Exception (main.py 81-94).
RateLimit_Dispatch(r, room, Bodies) ==
    /\ req[r].pc = "idle"
    /\ Len(limiter.log) < MaxPosts
    /\ \E u \in Users, carrier \in Carriers :
          LET request == ChatPost(u, carrier)
              d == dispatch(limiter.requests, RateLimit, WindowSeconds, request, now)
              current_user == get_current_user(request)
              from == IF current_user = None THEN "-" ELSE Val(current_user)
          IN  /\ limiter' = [requests |-> d.requests,
                             log |-> Append(limiter.log,
                                            [user |-> from, carrier |-> carrier, key |-> d.key,
                                             at |-> now, outcome |-> d.outcome])]
              /\ IF d.outcome = "limited"
                 THEN /\ req' = [req EXCEPT ![r] = Reply([Idle EXCEPT !.user = from],
                                                        500, D_Internal)]
                      /\ UNCHANGED <<now, tasks, nextTaskId, convs, msgs, view, taskOp, translated>>
                 ELSE IF current_user = None
                 THEN /\ req' = [req EXCEPT ![r] = Reply(Idle, 401, D_Unauthenticated)]
                      /\ UNCHANGED <<now, tasks, nextTaskId, convs, msgs, view, taskOp, translated>>
                 ELSE Handle(r, room, Bodies, {Val(current_user)})

-----------------------------------------------------------------------------
(* GET /api/chat/{conversation_id} and GET /api/chat/conversations *)

NoView ==
    [kind |-> "-", user |-> "-", conversation_id |-> None, limit |-> 0, offset |-> 0,
     status |-> 0, messages |-> << >>, conversations |-> << >>, total |-> 0]

\* the conversation ids of a set, most recent updated_at first
RECURSIVE OrderConvs(_, _)
OrderConvs(S, cs) ==
    IF S = {} THEN << >>
    ELSE LET top == CHOOSE x \in S :
                       \A y \in S : \/ cs[x].updated_at > cs[y].updated_at
                                    \/ /\ cs[x].updated_at = cs[y].updated_at
                                       /\ x <= y
         IN  <<top>> \o OrderConvs(S \ {top}, cs)

\* list_conversations: (page of the user's conversations, total)
list_conversations(cs, user_id, limit, offset) ==
    LET mine == {c \in DOMAIN cs : cs[c].user_id = user_id}
    IN  [conversations |-> Page(OrderConvs(mine, cs), offset, limit),
         total |-> Cardinality(mine)]

\* get_conversation_detail: 403 unless the caller owns the conversation
GetConversationDetail(user, conversation_id, limit, offset) ==
    /\ LET v == [NoView EXCEPT !.kind = "detail", !.user = user,
                               !.conversation_id = Some(conversation_id)]
       IN  view' = IF ~verify_user_owns_conversation(convs, conversation_id, user)
                   THEN [v EXCEPT !.status = 403]
                   ELSE IF get_conversation(convs, conversation_id, user) = {}
                   THEN [v EXCEPT !.status = 404]
                   ELSE [v EXCEPT !.status = 200,
                                  !.messages = get_conversation_messages(
                                                  msgs, conversation_id, limit, offset)]
    /\ UNCHANGED <<now, tasks, nextTaskId, convs, msgs, req, taskOp, translated, limiter>>

\* list_user_conversations: the message count of each listed conversation is
\* awaited on a synchronous session (line 442), which raises TypeError, so a
\* non-empty page is answered 500
ListUserConversations(user, limit, offset) ==
    /\ LET page == list_conversations(convs, user, limit, offset)
           v == [NoView EXCEPT !.kind = "list", !.user = user,
                               !.limit = limit, !.offset = offset]
       IN  view' = IF Len(page.conversations) > 0
                   THEN [v EXCEPT !.status = 500]
                   ELSE [v EXCEPT !.status = 200, !.conversations = page.conversations,
                                  !.total = page.total]
    /\ UNCHANGED <<now, tasks, nextTaskId, convs, msgs, req, taskOp, translated, limiter>>

-----------------------------------------------------------------------------
(* Task routes: TaskService of api/routes/tasks.py behind the REST routes *)

\* a task as a response carries it
task_row(id, task) ==
    [id |-> id, user_id |-> task.user_id, title |-> task.title,
     description |-> task.description, is_completed |-> task.is_completed,
     created_at |-> task.created_at, updated_at |-> task.updated_at]

rest_create_task(store, user_id, id, title, description, tc, tu, dbFail) ==
    IF title = None \/ Len(Val(title)) = 0 \/ Len(Strip(Val(title))) = 0
    THEN Outcome("ValidationError", store, << >>)
    ELSE IF dbFail THEN Outcome(E_Database, store, << >>)
    ELSE LET task == NewTask(user_id, Strip(Val(title)), description, tc, tu)
         IN  Outcome(NoError, Put(store, id, task), <<task_row(id, task)>>)

rest_get_tasks(store, user_id, page, page_size) ==
    LET mine == {i \in DOMAIN store : store[i].user_id = user_id}
        rows == Page(OrderDesc(mine, store), (page - 1) * page_size, page_size)
    IN  Outcome(NoError, store, [k \in 1 .. Len(rows) |-> task_row(rows[k], store[rows[k]])])

rest_get_task(store, user_id, task_id) ==
    IF {i \in DOMAIN store : i = task_id /\ store[i].user_id = user_id} = {}
    THEN Outcome("NotFoundError", store, << >>)
    ELSE Outcome(NoError, store, <<task_row(task_id, store[task_id])>>)

rest_update_task(store, user_id, task_id, title, description, is_completed, t, dbFail) ==
    IF rest_get_task(store, user_id, task_id).err # NoError
    THEN rest_get_task(store, user_id, task_id)
    ELSE IF title # None /\ Len(Strip(Val(title))) = 0
    THEN Outcome("ValidationError", store, << >>)
    ELSE IF dbFail THEN Outcome(E_Database, store, << >>)
    ELSE LET task == [store[task_id] EXCEPT
                        !.title = IF title # None THEN Strip(Val(title)) ELSE @,
                        !.description = IF description # None THEN description ELSE @,
                        !.is_completed = IF is_completed # None THEN Val(is_completed) ELSE @,
                        !.updated_at = t]
         IN  Outcome(NoError, Put(store, task_id, task), <<task_row(task_id, task)>>)

rest_delete_task(store, user_id, task_id, dbFail) ==
    IF rest_get_task(store, user_id, task_id).err # NoError
    THEN rest_get_task(store, user_id, task_id)
    ELSE IF dbFail THEN Outcome(E_Database, store, << >>)
    ELSE Outcome(NoError, Drop(store, task_id), << >>)

\* every route: 403 unless the path's user_id is the authenticated user
route(store, current_user, user_id, outcome) ==
    IF current_user # user_id THEN Outcome("403 FORBIDDEN", store, << >>) ELSE outcome

-----------------------------------------------------------------------------
(* MCP tool handlers: mcp-server/src/tools (token: None when validate_jwt_token
   rejects it, else the user it names) *)

add_task_handler(store, token, id, title, description, tc, tu, dbFail) ==
    IF token = None THEN Outcome("AuthenticationError", store, << >>)
    ELSE IF title = None \/ Len(Strip(Val(title))) = 0
    THEN Outcome("ValidationError", store, << >>)
    ELSE IF Len(Strip(Val(title))) > TitleMax
    THEN Outcome("ValidationError", store, << >>)
    ELSE IF dbFail THEN Outcome("DatabaseError", store, << >>)
    ELSE LET task == NewTask(Val(token), Strip(Val(title)),
                             IF description = Some(<< >>) THEN None ELSE description,
                             tc, tu)
         IN  Outcome(NoError, Put(store, id, task), <<task_row(id, task)>>)

\* page_arg, page_size_arg: None when the argument is omitted (lines 73-74)
list_tasks_handler(store, token, completed, page_arg, page_size_arg) ==
    LET page == IF page_arg = None THEN 1 ELSE Val(page_arg)
        page_size == IF page_size_arg = None THEN 20 ELSE Val(page_size_arg)
    IN
    IF token = None THEN Outcome("AuthenticationError", store, << >>)
    ELSE IF page < 1 THEN Outcome("ValidationError", store, << >>)
    ELSE IF page_size < 1 \/ page_size > 100 THEN Outcome("ValidationError", store, << >>)
    ELSE LET match == {i \in DOMAIN store :
                          /\ store[i].user_id = Val(token)
                          /\ completed # None => store[i].is_completed = Val(completed)}
             rows == Page(OrderDesc(match, store), (page - 1) * page_size, page_size)
         IN  Outcome(NoError, store,
                     [k \in 1 .. Len(rows) |-> task_row(rows[k], store[rows[k]])])

update_task_handler(store, token, task_id, title, description, is_completed, t, dbFail) ==
    IF token = None THEN Outcome("AuthenticationError", store, << >>)
    ELSE IF task_id = None \/ ~Val(task_id).wf THEN Outcome("ValidationError", store, << >>)
    ELSE IF title # None /\ Len(Strip(Val(title))) = 0
    THEN Outcome("ValidationError", store, << >>)
    ELSE IF title # None /\ Len(Strip(Val(title))) > TitleMax
    THEN Outcome("ValidationError", store, << >>)
    ELSE IF Val(task_id).id \notin DOMAIN store THEN Outcome("NotFoundError", store, << >>)
    ELSE IF store[Val(task_id).id].user_id # Val(token)
    THEN Outcome("AuthorizationError", store, << >>)
    ELSE IF dbFail THEN Outcome("DatabaseError", store, << >>)
    ELSE LET id == Val(task_id).id
             \* an empty description arrives as None (lines 112-113)
             new_description == IF description = Some(<< >>) THEN None ELSE description
             updated == title # None \/ new_description # None \/ is_completed # None
             task == [store[id] EXCEPT
                        !.title = IF title # None THEN Strip(Val(title)) ELSE @,
                        !.description = IF new_description # None THEN new_description ELSE @,
                        !.is_completed = IF is_completed # None THEN Val(is_completed) ELSE @,
                        !.updated_at = IF updated THEN t ELSE @]
         IN  Outcome(NoError, Put(store, id, task), <<task_row(id, task)>>)

delete_task_handler(store, token, task_id, dbFail) ==
    IF token = None THEN Outcome("AuthenticationError", store, << >>)
    ELSE IF task_id = None \/ ~Val(task_id).wf THEN Outcome("ValidationError", store, << >>)
    ELSE IF Val(task_id).id \notin DOMAIN store THEN Outcome("NotFoundError", store, << >>)
    ELSE IF store[Val(task_id).id].user_id # Val(token)
    THEN Outcome("AuthorizationError", store, << >>)
    ELSE IF dbFail THEN Outcome("DatabaseError", store, << >>)
    ELSE Outcome(NoError, Drop(store, Val(task_id).id), << >>)

-----------------------------------------------------------------------------
(* MCP tool handlers of the Hackathon backend: mcp_server/tools (token: None
   when validate_token raises AuthError, else the user it names).  Each returns
   a mapping and never raises; the error code stands for the mapping. *)

add_task_handle(store, token, id, title, description, tc, tu, dbFail) ==
    IF title = None \/ Len(Strip(Val(title))) = 0
    THEN Outcome("VALIDATION_ERROR", store, << >>)
    ELSE IF Len(Strip(Val(title))) > TitleMax
    THEN Outcome("VALIDATION_ERROR", store, << >>)
    ELSE IF description # None /\ Len(Strip(Val(description))) > DescriptionMax
    THEN Outcome("VALIDATION_ERROR", store, << >>)
    ELSE IF token = None THEN Outcome("AUTH_ERROR", store, << >>)
    ELSE IF dbFail THEN Outcome("INTERNAL_ERROR", store, << >>)
    ELSE LET task == NewTask(Val(token), Strip(Val(title)),
                             IF description # None /\ Len(Strip(Val(description))) > 0
                             THEN Some(Strip(Val(description))) ELSE None,
                             tc, tu)
         IN  Outcome(NoError, Put(store, id, task), <<task_row(id, task)>>)

list_tasks_handle(store, token, filter_completed) ==
    IF token = None THEN Outcome("AUTH_ERROR", store, << >>)
    ELSE LET match == {i \in DOMAIN store :
                          /\ store[i].user_id = Val(token)
                          /\ filter_completed # None =>
                                 store[i].is_completed = Val(filter_completed)}
             rows == OrderDesc(match, store)
         IN  Outcome(NoError, store,
                     [k \in 1 .. Len(rows) |-> task_row(rows[k], store[rows[k]])])

update_task_handle(store, token, task_id, title, description, t, dbFail) ==
    IF task_id = None \/ ~Val(task_id).wf THEN Outcome("VALIDATION_ERROR", store, << >>)
    ELSE IF title # None /\ Len(Strip(Val(title))) > TitleMax
    THEN Outcome("VALIDATION_ERROR", store, << >>)
    ELSE IF description # None /\ Len(Strip(Val(description))) > DescriptionMax
    THEN Outcome("VALIDATION_ERROR", store, << >>)
    ELSE IF token = None THEN Outcome("AUTH_ERROR", store, << >>)
    ELSE IF {i \in DOMAIN store : i = Val(task_id).id /\ store[i].user_id = Val(token)} = {}
    THEN Outcome("NOT_FOUND", store, << >>)
    ELSE IF dbFail THEN Outcome("INTERNAL_ERROR", store, << >>)
    ELSE LET id == Val(task_id).id
             \* an empty title or description arrives as None (lines 34-35)
             newTitle == IF title # None /\ Len(Strip(Val(title))) > 0
                         THEN Some(Strip(Val(title))) ELSE None
             task == [store[id] EXCEPT
                        !.title = IF newTitle # None THEN Val(newTitle) ELSE @,
                        !.description = IF description # None /\ Len(Strip(Val(description))) > 0
                                        THEN Some(Strip(Val(description))) ELSE @,
                        !.updated_at = t]
         IN  Outcome(NoError, Put(store, id, task), <<task_row(id, task)>>)

complete_task_handle(store, token, task_id, t, dbFail) ==
    IF task_id = None \/ ~Val(task_id).wf THEN Outcome("VALIDATION_ERROR", store, << >>)
    ELSE IF token = None THEN Outcome("AUTH_ERROR", store, << >>)
    ELSE IF {i \in DOMAIN store : i = Val(task_id).id /\ store[i].user_id = Val(token)} = {}
    THEN Outcome("NOT_FOUND", store, << >>)
    ELSE IF dbFail THEN Outcome("INTERNAL_ERROR", store, << >>)
    ELSE LET id == Val(task_id).id
             task == [store[id] EXCEPT !.is_completed = TRUE, !.updated_at = t]
         IN  Outcome(NoError, Put(store, id, task), <<task_row(id, task)>>)

delete_task_handle(store, token, task_id, dbFail) ==
    IF task_id = None \/ ~Val(task_id).wf THEN Outcome("VALIDATION_ERROR", store, << >>)
    ELSE IF token = None THEN Outcome("AUTH_ERROR", store, << >>)
    ELSE IF {i \in DOMAIN store : i = Val(task_id).id /\ store[i].user_id = Val(token)} = {}
    THEN Outcome("NOT_FOUND", store, << >>)
    ELSE IF dbFail THEN Outcome("INTERNAL_ERROR", store, << >>)
    ELSE Outcome(NoError, Drop(store, Val(task_id).id), << >>)

-----------------------------------------------------------------------------
(* Task operations of the users, through each entry point *)

\* inputs: the operations of every entry point, and the (title, description)
\* pairs of a creation
AllOps ==
    {"add_task", "list_tasks", "complete_task", "update_task", "delete_task",
     "create", "list", "get", "update", "delete"}
Fields(title, description) == [title |-> title, description |-> description]
PlainCreates == {Fields(Some(<<"a">>), None), Fields(Some(<<" ">>), None)}
Inputs(op, Creates) ==
    IF op \in {"add_task", "create"} THEN Creates
    ELSE IF op \in {"update_task", "update"}
    THEN {Fields(None, None), Fields(Some(<<"b", " ">>), None)}
    ELSE {Fields(None, None)}
Flags(op) ==
    IF op \in {"update_task", "update", "list_tasks"} THEN {None, Some(TRUE)} ELSE {None}
Failures(op) == IF op \in {"add_task", "create"} THEN BOOLEAN ELSE {FALSE}
Tokens == {None} \cup {Some(u) : u \in Users}
TaskIdArgs(op) ==
    IF op \in {"add_task", "list_tasks"} THEN {None}
    ELSE {Some(Uuid(n)) : n \in TaskIds} \cup {Some(NotUuid)}
\* page and page_size of a list_tasks call, None when omitted
NoPaging == [page |-> None, page_size |-> None]
Pagings(op) ==
    IF op = "list_tasks"
    THEN {[page |-> p, page_size |-> ps] :
             p \in {None, Some(0), Some(1)}, ps \in {None, Some(0), Some(1), Some(101)}}
    ELSE {NoPaging}
TaskIdsOf(op) == IF op \in {"create", "list"} THEN {1} ELSE TaskIds

\* the ids of the tasks a response carries
RowIds(rows) == {rows[k].id : k \in 1 .. Len(rows)}

ResultIds(result) ==
    IF IsFailure(result) THEN {}
    ELSE IF "tasks" \in DOMAIN result THEN RowIds(result.tasks)
    ELSE IF "task" \in DOMAIN result THEN {result.task.id}
    ELSE IF "id" \in DOMAIN result THEN {result.id}
    ELSE {}

\* the fields an update is given
Given(title, description, is_completed) ==
    {f \in {"title", "description", "is_completed"} :
        \/ f = "title" /\ title # None
        \/ f = "description" /\ description # None
        \/ f = "is_completed" /\ is_completed # None}

\* the store and the record of an operation that has returned: who called,
\* whose tasks it addressed, which task and which fields it named
Done(store, via, user, target, op, task_id, in, given, paging, error, returned, t) ==
    /\ tasks' = store
    /\ nextTaskId' = IF nextTaskId \in DOMAIN store THEN nextTaskId + 1 ELSE nextTaskId
    /\ taskOp' = [via |-> via, user |-> user, target |-> target, op |-> op,
                  task_id |-> task_id, in |-> in, given |-> given, paging |-> paging,
                  error |-> error, returned |-> returned]
    \* the clock has moved on only if a second reading was taken (a creation)
    /\ op \notin {"add_task", "create"} => t = now
    /\ now' = t
    /\ UNCHANGED <<convs, msgs, req, view, translated, limiter>>

\* a tool call of the agent on behalf of `user` (AgentService._execute_tool)
AgentToolCall(user, Ops, Creates) ==
    \E op \in Ops \cap {"add_task", "list_tasks", "complete_task", "update_task", "delete_task"} :
    \E in \in Inputs(op, Creates), tid \in TaskIdArgs(op), flag \in Flags(op),
       dbFail \in Failures(op), paging \in Pagings(op), tu \in LaterReads :
        LET parameters ==
                [Params(in.title, in.description, tid, IF op = "update_task" THEN flag ELSE None)
                    EXCEPT !.page = paging.page, !.page_size = paging.page_size]
            run == _execute_tool(tasks, op, parameters, user, nextTaskId, now, tu, dbFail)
        IN  /\ op = "add_task" => nextTaskId <= MaxTasks
            /\ Done(run.tasks, "agent", user, user, op, parameters.task_id, in,
                    Given(in.title, in.description, parameters.is_completed), paging,
                    IF IsFailure(run.result) THEN run.result.error ELSE NoError,
                    ResultIds(run.result), tu)

\* a REST request of current_user on the path /api/{user_id}/tasks
RestRequest(current_user, user_id, Ops, Creates) ==
    \E op \in Ops \cap {"create", "list", "get", "update", "delete"} :
    \E in \in Inputs(op, Creates), id \in TaskIdsOf(op), flag \in Flags(op),
       dbFail \in Failures(op), tu \in LaterReads :
        LET o == route(tasks, current_user, user_id,
                   CASE op = "create" ->
                          rest_create_task(tasks, user_id, nextTaskId, in.title,
                                           in.description, now, tu, dbFail)
                     [] op = "list" -> rest_get_tasks(tasks, user_id, 1, 20)
                     [] op = "get" -> rest_get_task(tasks, user_id, id)
                     [] op = "update" ->
                          rest_update_task(tasks, user_id, id, in.title, in.description,
                                           flag, now, dbFail)
                     [] op = "delete" -> rest_delete_task(tasks, user_id, id, dbFail))
        IN  /\ op = "create" => nextTaskId <= MaxTasks
            /\ Done(o.tasks, "rest", current_user, user_id, op,
                    IF op \in {"create", "list"} THEN None ELSE Some(Uuid(id)), in,
                    Given(in.title, in.description, IF op = "update" THEN flag ELSE None),
                    NoPaging, o.err, RowIds(o.ret), tu)

\* a call of an MCP tool handler with a token
McpToolCall(token, Ops, Creates) ==
    \E op \in Ops \cap {"add_task", "list_tasks", "update_task", "delete_task"} :
    \E in \in Inputs(op, Creates), tid \in TaskIdArgs(op), flag \in Flags(op),
       dbFail \in Failures(op), paging \in Pagings(op), tu \in LaterReads :
        LET o == CASE op = "add_task" ->
                        add_task_handler(tasks, token, nextTaskId, in.title, in.description,
                                         now, tu, dbFail)
                   [] op = "list_tasks" ->
                        list_tasks_handler(tasks, token, flag, paging.page, paging.page_size)
                   [] op = "update_task" ->
                        update_task_handler(tasks, token, tid, in.title, in.description,
                                            flag, now, dbFail)
                   [] op = "delete_task" -> delete_task_handler(tasks, token, tid, dbFail)
        IN  /\ op = "add_task" => nextTaskId <= MaxTasks
            /\ Done(o.tasks, "mcp", IF token = None THEN "-" ELSE Val(token),
                    IF token = None THEN "-" ELSE Val(token), op, tid, in,
                    Given(in.title, in.description, IF op = "update_task" THEN flag ELSE None),
                    paging, o.err, RowIds(o.ret), tu)

\* a call of a tool handler of the Hackathon backend with a token
HackathonToolCall(token, Ops, Creates) ==
    \E op \in Ops \cap {"add_task", "list_tasks", "update_task", "complete_task", "delete_task"} :
    \E in \in Inputs(op, Creates), tid \in TaskIdArgs(op), flag \in Flags(op),
       dbFail \in Failures(op), tu \in LaterReads :
        LET o == CASE op = "add_task" ->
                        add_task_handle(tasks, token, nextTaskId, in.title, in.description,
                                        now, tu, dbFail)
                   [] op = "list_tasks" -> list_tasks_handle(tasks, token, flag)
                   [] op = "update_task" ->
                        update_task_handle(tasks, token, tid, in.title, in.description,
                                           now, dbFail)
                   [] op = "complete_task" -> complete_task_handle(tasks, token, tid, now, dbFail)
                   [] op = "delete_task" -> delete_task_handle(tasks, token, tid, dbFail)
        IN  /\ op = "add_task" => nextTaskId <= MaxTasks
            /\ Done(o.tasks, "hackathon", IF token = None THEN "-" ELSE Val(token),
                    IF token = None THEN "-" ELSE Val(token), op, tid, in,
                    Given(in.title, in.description, None), NoPaging,
                    o.err, RowIds(o.ret), tu)

\* the arguments the function tools of the Hackathon chat agent build for
\* MCPClient.call_tool: the fields of the tool and nothing else, so that
\* arguments.get("_jwt_token") is None in the handler
agent_arguments(title, description, task_id, filter_completed) ==
    [title |-> title, description |-> description, task_id |-> task_id,
     filter_completed |-> filter_completed, _jwt_token |-> None]

\* validate_token: None when it raises AuthError, else the user the token names
validate_token(token) == IF token = None THEN None ELSE token

\* MCPClient.call_tool: the handler of the named tool, given the arguments as
\* they are
call_tool(store, name, arguments, id, tc, tu, dbFail) ==
    LET token == validate_token(arguments._jwt_token)
    IN  CASE name = "add_task" ->
               add_task_handle(store, token, id, arguments.title, arguments.description,
                               tc, tu, dbFail)
          [] name = "list_tasks" -> list_tasks_handle(store, token, arguments.filter_completed)
          [] name = "update_task" ->
               update_task_handle(store, token, arguments.task_id, arguments.title,
                                  arguments.description, tc, dbFail)
          [] name = "complete_task" ->
               complete_task_handle(store, token, arguments.task_id, tc, dbFail)
          [] name = "delete_task" -> delete_task_handle(store, token, arguments.task_id, dbFail)
          [] OTHER -> Outcome("TOOL_NOT_FOUND", store, << >>)

\* a tool call of the Hackathon chat agent, run for user_id (run_chat_agent)
HackathonAgentToolCall(user_id, Ops, Creates) ==
    \E op \in Ops \cap {"add_task", "list_tasks", "update_task", "complete_task", "delete_task"} :
    \E in \in Inputs(op, Creates), tid \in TaskIdArgs(op), flag \in Flags(op),
       dbFail \in Failures(op), tu \in LaterReads :
        LET arguments == agent_arguments(in.title, in.description, tid,
                                         IF op = "list_tasks" THEN flag ELSE None)
            o == call_tool(tasks, op, arguments, nextTaskId, now, tu, dbFail)
        IN  /\ op = "add_task" => nextTaskId <= MaxTasks
            /\ Done(o.tasks, "hackathon_agent", user_id, user_id, op, tid, in,
                    Given(in.title, in.description, None), NoPaging,
                    o.err, RowIds(o.ret), tu)

-----------------------------------------------------------------------------
(* The chat route of the Hackathon backend: api/routes/chat.py over
   chat/persistence.py.  Each worker is a server process with a session of its
   own on the shared database; a step is one round trip to the database. *)

\* Conversation(user_id=user_id) of models/conversation.py
ChatConversation(user_id, tc, tu) == [user_id |-> user_id, created_at |-> tc, updated_at |-> tu]

\* Message(conversation_id, role, content) of models/message.py
ChatMessage(conversation_id, role, content, created_at) ==
    [conversation_id |-> conversation_id, role |-> role, content |-> content,
     created_at |-> created_at]

\* load_or_create_conversation, lines 15-19: the rows the query may put first,
\* those of the user with the latest updated_at
most_recent(cs, user_id) ==
    {c \in DOMAIN cs :
        /\ cs[c].user_id = user_id
        /\ \A d \in DOMAIN cs : cs[d].user_id = user_id => cs[d].updated_at <= cs[c].updated_at}

\* append_message: the row added, the conversation touched, one commit
append_message(cs, ms, conversation_id, role, content, t) ==
    [convs |-> IF conversation_id \in DOMAIN cs
               THEN [cs EXCEPT ![conversation_id].updated_at = t] ELSE cs,
     msgs |-> Append(ms, ChatMessage(conversation_id, role, content, t))]

\* POST /{user_id}/chat of an authenticated user: ChatRequest validation, then
\* the query of load_or_create_conversation
Chat_Load(r, Bodies) ==
    /\ req[r].pc = "idle"
    /\ Len(msgs) + 2 * (Cardinality(InFlight) + 1) <= MaxMsgs
    /\ \E user_id \in Users, message \in Bodies :
          LET rec == [Idle EXCEPT !.user = user_id, !.message = message]
              found == most_recent(convs, user_id)
          IN  IF Len(message) < 1
              THEN req' = [req EXCEPT ![r] = Reply(rec, 422, D_Unprocessable)]
              ELSE IF found = {}
              THEN req' = [req EXCEPT ![r] = [rec EXCEPT !.pc = "create"]]
              ELSE \E convo \in found :
                      req' = [req EXCEPT ![r] =
                                [rec EXCEPT !.pc = "append_user", !.conversation_id = Some(convo)]]
    /\ UNCHANGED <<now, tasks, nextTaskId, convs, msgs, view, taskOp, translated, limiter>>

\* load_or_create_conversation, lines 24-28: no row was found, one is added
Chat_Create(r) ==
    /\ req[r].pc = "create"
    /\ \E tu \in LaterReads :
          LET newId == Cardinality(DOMAIN convs) + 1
          IN  /\ newId <= MaxConvs
              /\ convs' = Put(convs, newId, ChatConversation(req[r].user, now, tu))
              /\ now' = tu
              /\ req' = [req EXCEPT ![r].pc = "append_user", ![r].conversation_id = Some(newId)]
    /\ UNCHANGED <<tasks, nextTaskId, msgs, view, taskOp, translated, limiter>>

\* chat, lines 33-37: the history is read and the user's message appended
Chat_AppendUser(r) ==
    /\ req[r].pc = "append_user"
    /\ LET o == append_message(convs, msgs, Val(req[r].conversation_id), "user",
                               req[r].message, now)
       IN  /\ convs' = o.convs
           /\ msgs' = o.msgs
    /\ req' = [req EXCEPT ![r].pc = "run_agent"]
    /\ UNCHANGED <<now, tasks, nextTaskId, view, taskOp, translated, limiter>>

\* chat, lines 41-64: run_chat_agent answers (its tool calls are those of
\* HackathonAgentToolCall) and the answer is appended, or it raises and the
\* request is answered 500
Chat_RunAgent(r, Answers) ==
    /\ req[r].pc = "run_agent"
    /\ \/ \E response_text \in Answers :
             LET o == append_message(convs, msgs, Val(req[r].conversation_id), "assistant",
                                     Strip(response_text), now)
             IN  /\ convs' = o.convs
                 /\ msgs' = o.msgs
                 /\ req' = [req EXCEPT ![r] =
                              Reply([req[r] EXCEPT !.content = Some(Strip(response_text))],
                                    200, D_Ok)]
       \/ /\ req' = [req EXCEPT ![r] = Reply(req[r], 500, "<str(e)>")]
          /\ UNCHANGED <<convs, msgs>>
    /\ UNCHANGED <<now, tasks, nextTaskId, view, taskOp, translated, limiter>>

-----------------------------------------------------------------------------
(* Specifications *)

NoTaskOp ==
    [via |-> "-", user |-> "-", target |-> "-", op |-> "-", task_id |-> None,
     in |-> Fields(None, None), given |-> {}, paging |-> NoPaging, error |-> NoError, returned |-> {}]

InitAt(t) ==
    /\ now = t
    /\ tasks = << >>
    /\ nextTaskId = 1
    /\ convs = << >>
    /\ msgs = << >>
    /\ req = [w \in Workers |-> Idle]
    /\ view = NoView
    /\ taskOp = NoTaskOp
    /\ translated = None
    /\ limiter = NoLimiter

\* The agent specification: one worker serving chat requests one after the
\* other.  Its clock stands still (no timestamp decides what the agent does).
Init == InitAt(MaxClock)

Next ==
    \/ SendMessage_Receive(1, MaxMsgsSeq, ChatMessages)
    \/ AddMessage_Begin(1)
    \/ AddMessage_Commit(1)
    \/ AddMessage_Abort(1)
    \/ ModelCall(1, ToolCallChoices, ModelContents)
    \/ ExecuteToolCall(1)
    \/ FinalModelCall(1, FollowUpChoices)
    \/ Respond(1)

Spec == Init /\ [][Next]_vars

\* The agent specification with the handler running to completion: every
\* awaited call returns or raises.  The model's tool calls are one that
\* succeeds, one that fails and one whose arguments do not parse.
NextFair ==
    \/ SendMessage_Receive(1, MaxMsgsSeq, ChatMessages)
    \/ AddMessage_Begin(1)
    \/ AddMessage_Commit(1)
    \/ AddMessage_Abort(1)
    \/ ModelCall(1, CoreToolCalls, ModelContents)
    \/ ExecuteToolCall(1)
    \/ FinalModelCall(1, FollowUpChoices)
    \/ Respond(1)

FairSpec == Init /\ [][NextFair]_vars /\ WF_vars(NextFair)

\* The concurrent specification: two requests in flight, each with its own
\* database session, and the clock advancing.  The model answers in text only.
InitConc == InitAt(0)

NextConc ==
    \/ \E r \in Workers : SendMessage_Receive(r, MaxMsgs, {<<"h", "i", " ">>, <<" ">>})
    \/ \E r \in Workers : AddMessage_Begin(r)
    \/ \E r \in Workers : AddMessage_Commit(r)
    \/ \E r \in Workers : AddMessage_Abort(r)
    \/ \E r \in Workers : ModelCall(r, {}, {Some(<<"o", "k">>)})
    \/ Tick

SpecConc == InitConc /\ [][NextConc]_vars

\* The two-user specification: chat requests of both users served one after
\* the other, the clock advancing, and the two GET routes.
NextUsers ==
    \/ SendMessage_Receive(1, MaxMsgsUsers, {<<"h", "i", " ">>, <<" ">>})
    \/ AddMessage_Begin(1)
    \/ AddMessage_Commit(1)
    \/ AddMessage_Abort(1)
    \/ ModelCall(1, {}, {Some(<<"o", "k">>)})
    \/ Respond(1)
    \/ Tick
    \/ \E user \in Users, c \in ConvIds, limit \in {2}, offset \in 0 .. 1 :
          GetConversationDetail(user, c, limit, offset)
    \/ \E user \in Users, limit \in {1}, offset \in 0 .. 1 :
          ListUserConversations(user, limit, offset)

SpecUsers == InitConc /\ [][NextUsers]_vars

\* The double-submit specification: two requests in flight, possibly on the
\* same conversation, the clock advancing, and GET /api/chat/{id} with its
\* default page.
DetailLimit == 100

NextDouble ==
    \/ \E r \in Workers : SendMessage_Receive(r, MaxMsgs, {<<"h", "i", " ">>})
    \/ \E r \in Workers : AddMessage_Begin(r)
    \/ \E r \in Workers : AddMessage_Commit(r)
    \/ \E r \in Workers : AddMessage_Abort(r)
    \/ \E r \in Workers : ModelCall(r, {}, {Some(<<"o", "k">>)})
    \/ Tick
    \/ \E user \in Users, c \in ConvIds : GetConversationDetail(user, c, DetailLimit, 0)

SpecDouble == InitConc /\ [][NextDouble]_vars

\* The translator specification: translate_mcp_error applied to each kind.
NextTranslate == Translate

SpecTranslate == Init /\ [][NextTranslate]_vars

\* The history specification: user A's conversation 1 already holds n
\* messages, stored one per clock reading up to reading 0, and one request
\* is served.  n is near the context window, near the history limit, or both.
Digit(d) == <<"0", "1", "2", "3", "4", "5", "6", "7", "8", "9">>[d + 1]

\* the text "m<i>" of the i-th stored message
Numbered(i) ==
    <<"m">> \o (IF i >= 100 THEN <<Digit(i \div 100)>> ELSE << >>)
           \o (IF i >= 10 THEN <<Digit((i \div 10) % 10)>> ELSE << >>)
           \o <<Digit(i % 10)>>

HistorySizes ==
    {n \in 0 .. MaxHistory : n <= ContextWindow + 2 \/ n >= HistoryLimit - 2}

StoredHistory(n) ==
    [i \in 1 .. n |->
        Message(1, "A", IF i % 2 = 1 THEN "user" ELSE "assistant", Numbered(i), None, i - n)]

InitHistory ==
    \E n \in HistorySizes :
        /\ now = 0
        /\ tasks = << >>
        /\ nextTaskId = 1
        /\ convs = Put(<< >>, 1, Conversation("A", Numbered(1), 0 - n, 0))
        /\ msgs = StoredHistory(n)
        /\ req = [w \in Workers |-> Idle]
        /\ view = NoView
        /\ taskOp = NoTaskOp
        /\ translated = None
        /\ limiter = NoLimiter

NextHistory ==
    \/ SendMessage_Receive(1, MaxHistory + 2, {<<"h", "i", " ">>})
    \/ AddMessage_Begin(1)
    \/ AddMessage_Commit(1)
    \/ AddMessage_Abort(1)
    \/ ModelCall(1, {}, {Some(<<"o", "k">>)})

SpecHistory == InitHistory /\ [][NextHistory]_vars

\* The rate-limit specification: POSTs of both users on /api/chat through the
\* middleware, served one after the other, the clock advancing.
NextLimit ==
    \/ RateLimit_Dispatch(1, MaxMsgsSeq, {<<"h", "i", " ">>, <<" ">>})
    \/ AddMessage_Begin(1)
    \/ AddMessage_Commit(1)
    \/ AddMessage_Abort(1)
    \/ ModelCall(1, {}, {Some(<<"o", "k">>)})
    \/ Respond(1)
    \/ Tick

SpecLimit == InitConc /\ [][NextLimit]_vars

\* The task specification: the users' task operations through the agent's
\* tools, the REST routes and the two sets of MCP tool handlers.
NextTasks ==
    \/ \E user \in Users : AgentToolCall(user, AllOps, PlainCreates)
    \/ \E current_user \in Users, user_id \in Users :
          RestRequest(current_user, user_id, AllOps, PlainCreates)
    \/ \E token \in Tokens : McpToolCall(token, AllOps, PlainCreates)
    \/ \E token \in Tokens : HackathonToolCall(token, AllOps, PlainCreates)
    \/ \E user_id \in Users : HackathonAgentToolCall(user_id, AllOps, PlainCreates)

SpecTasks == Init /\ [][NextTasks]_vars

\* The creation specification: tasks created and read back through each entry
\* point, with the clock advancing between and within the operations.
CreateOps == {"add_task", "create", "list_tasks", "list", "get"}

Creates ==
    {Fields(Some(<<" ", "a">>), None), Fields(Some(<<"a">>), Some(<<"d">>)),
     Fields(Some(<<" ">>), None)}

NextCreate ==
    \/ \E user \in Users : AgentToolCall(user, CreateOps, Creates)
    \/ \E user \in Users : RestRequest(user, user, CreateOps, Creates)
    \/ \E token \in Tokens : McpToolCall(token, CreateOps, Creates)
    \/ \E token \in Tokens : HackathonToolCall(token, CreateOps, Creates)
    \/ Tick

SpecCreate == InitConc /\ [][NextCreate]_vars

\* The Hackathon chat specification: two server processes serving the chat
\* requests of the users, the clock advancing.
NextChat ==
    \/ \E r \in Workers : Chat_Load(r, {<<"h">>, << >>})
    \/ \E r \in Workers : Chat_Create(r)
    \/ \E r \in Workers : Chat_AppendUser(r)
    \/ \E r \in Workers : Chat_RunAgent(r, {<<"o", "k", " ">>})
    \/ \E r \in Workers : Respond(r)
    \/ Tick

SpecChat == InitConc /\ [][NextChat]_vars

-----------------------------------------------------------------------------
(* Properties of the agent and the chat handler *)

\* the tool round of worker r is over
PastTools(r) == req[r].pc \in {"final_call", "add_message", "commit", "responded"}

\* process_user_message of worker r has returned normally
Returned(r) ==
    \/ req[r].pc \in {"add_message", "commit"} /\ req[r].role = "assistant"
    \/ req[r].pc = "responded" /\ req[r].modelCalls >= 1 /\ ~req[r].modelFailed
                               /\ req[r].response # None
                               /\ (Len(req[r].requested) > 0 => req[r].modelCalls >= 2)

StoredUserMessage(r) ==
    \E i \in 1 .. Len(msgs) :
        /\ msgs[i].conversation_id = Val(req[r].conversation_id)
        /\ msgs[i].user_id = req[r].user
        /\ msgs[i].role = "user"
        /\ msgs[i].content = req[r].message

StoredAssistantMessages(r) ==
    {i \in 1 .. Len(msgs) : /\ msgs[i].conversation_id = Val(req[r].conversation_id)
                            /\ msgs[i].role = "assistant"}

\* C1: once the tool round of a model turn that requested N >= 1 calls is
\* over, there are exactly N tool-call records, the i-th for the i-th call
C1_OneRecordPerCall ==
    \A r \in Workers :
        (Len(req[r].requested) >= 1 /\ PastTools(r)) =>
            /\ Len(req[r].tool_calls_data) = Len(req[r].requested)
            /\ \A i \in 1 .. Len(req[r].requested) :
                  req[r].tool_calls_data[i].tool = req[r].requested[i].name

\* C2: every failed tool result, in the records and in the tool-role messages
\* of the model context, carries one of the translator's six strings
C2_FailuresTranslated ==
    \A r \in Workers :
        /\ \A i \in 1 .. Len(req[r].tool_calls_data) :
              IsFailure(req[r].tool_calls_data[i].result) =>
                  req[r].tool_calls_data[i].result.error \in TranslatorStrings
        /\ \A k \in 1 .. Len(req[r].messages) :
              (req[r].messages[k].role = "tool" /\ IsFailure(req[r].messages[k].content.json)) =>
                  req[r].messages[k].content.json.error \in TranslatorStrings

\* C3: a request whose model call failed leaves no task change committed and
\* no assistant message stored, and is answered the generic 500
C3_NoPartialPersistence ==
    \A r \in Workers :
        (req[r].pc = "responded" /\ req[r].modelFailed) =>
            /\ tasks = req[r].tasksBefore
            /\ StoredAssistantMessages(r) = {}
            /\ req[r].status = 500 /\ req[r].detail = D_Failed

\* C4: whenever the model has been invoked for a request, the request's user
\* message is already committed in its conversation
C4_UserMessageFirst ==
    \A r \in Workers : req[r].modelCalls >= 1 => StoredUserMessage(r)

C4_Witness ==
    /\ req[1].pc = "responded" /\ req[1].modelFailed /\ req[1].status = 500
    /\ StoredUserMessage(1)

\* C5: the content process_user_message returns is the text of a model
\* response that requested no tools
C5_ContentFromFinalAnswer ==
    \A r \in Workers : Returned(r) => Len(Val(req[r].response).tool_calls) = 0

\* C6: the model is called at most twice per invocation, and every invocation
\* that reached the model ends with a response
C6_BoundedTermination ==
    /\ [](\A r \in Workers : req[r].modelCalls <= 2)
    /\ \A r \in {1} : (req[r].pc = "model_call") ~> (req[r].pc = "responded")

C6_Witness ==
    /\ req[1].pc = "responded" /\ req[1].status = 200 /\ req[1].modelCalls = 2
    /\ Len(req[1].tool_calls_data) >= 2
    /\ Len(Val(req[1].response).tool_calls) > 0

\* C7: a requested call whose arguments are not valid JSON ends up as a failed
\* record, with the other requested calls recorded too
C7_MalformedArgumentsRecorded ==
    \A r \in Workers :
        (req[r].pc = "responded" /\ req[r].modelCalls >= 1) =>
            \A i \in 1 .. Len(req[r].requested) :
                ~req[r].requested[i].valid =>
                    /\ Len(req[r].tool_calls_data) = Len(req[r].requested)
                    /\ IsFailure(req[r].tool_calls_data[i].result)
                    /\ req[r].status # 400

-----------------------------------------------------------------------------
(* Properties of the conversation store and the chat routes *)

Owner(c) == convs[c].user_id

\* user u names, in a request, a stored conversation of someone else
Foreign(u, cid) == cid # None /\ Val(cid) \in DOMAIN convs /\ Owner(Val(cid)) # u

\* C8: a request of one user never reads, lists or writes a conversation of
\* another: no foreign message in a returned page or in the model's history,
\* no message of one user stored in a conversation of another, a POST naming
\* a foreign conversation answered 404 and a GET 403, and updated_at changed
\* only by a commit of the owner's own request
C8_ConversationIsolation ==
    /\ [](/\ \A i \in 1 .. Len(msgs) : msgs[i].user_id = Owner(msgs[i].conversation_id)
          /\ \A r \in Workers :
                /\ req[r].pc \notin {"idle", "responded"} =>
                      /\ ~Foreign(req[r].user, req[r].conversation_id)
                      /\ \A k \in 1 .. Len(req[r].history) :
                            req[r].history[k].user_id = req[r].user
                /\ (req[r].pc = "responded" /\ Foreign(req[r].user, req[r].conversation_id)) =>
                      req[r].status = 404 /\ req[r].modelCalls = 0
          /\ Foreign(view.user, view.conversation_id) =>
                view.status = 403 /\ view.messages = << >>
          /\ \A k \in 1 .. Len(view.messages) : view.messages[k].user_id = view.user
          /\ \A u \in Users :
                \A k \in 1 .. Len(list_conversations(convs, u, MaxConvs, 0).conversations) :
                    Owner(list_conversations(convs, u, MaxConvs, 0).conversations[k]) = u)
    /\ [][\A c \in DOMAIN convs :
             convs'[c].updated_at # convs[c].updated_at =>
                 \E r \in Workers : /\ req[r].pc = "commit"
                                    /\ req[r].user = Owner(c)
                                    /\ req[r].conversation_id = Some(c)]_vars

C8_Witness ==
    /\ req[1].pc = "responded" /\ req[1].status = 404
    /\ Foreign(req[1].user, req[1].conversation_id)
    /\ \E i \in 1 .. Len(msgs) : msgs[i].conversation_id = Val(req[1].conversation_id)
    /\ view.kind = "detail" /\ view.status = 403
    /\ Foreign(view.user, view.conversation_id)

-----------------------------------------------------------------------------
(* Properties of the task store *)

\* C9: a task operation of a user returns only tasks of that user and leaves
\* the tasks of every other user as they were
C9_TaskIsolation ==
    [][/\ \A id \in taskOp'.returned :
             /\ id \in DOMAIN tasks \cup DOMAIN tasks'
             /\ id \in DOMAIN tasks => tasks[id].user_id = taskOp'.user
             /\ id \in DOMAIN tasks' => tasks'[id].user_id = taskOp'.user
       /\ \A id \in DOMAIN tasks :
             tasks[id].user_id # taskOp'.user =>
                 id \in DOMAIN tasks' /\ tasks'[id] = tasks[id]]_vars

C9_Witness ==
    /\ taskOp.op \in {"update_task", "complete_task", "delete_task", "get", "update", "delete"}
    /\ taskOp.user \in Users
    /\ taskOp.task_id # None /\ Val(taskOp.task_id).wf
    /\ Val(taskOp.task_id).id \in DOMAIN tasks
    /\ tasks[Val(taskOp.task_id).id].user_id # taskOp.user
    /\ taskOp.error # NoError /\ taskOp.returned = {}

-----------------------------------------------------------------------------
(* Properties of add_message under concurrent requests *)

\* C10: in every committed state a conversation's updated_at is not older than
\* the created_at of any of its stored messages, and updated_at changes only
\* in the step that stores a message of that conversation
C10_UpdatedAtCoversMessages ==
    /\ [](\A i \in 1 .. Len(msgs) :
             convs[msgs[i].conversation_id].updated_at >= msgs[i].created_at)
    /\ [][\A c \in DOMAIN convs :
             convs'[c].updated_at # convs[c].updated_at =>
                 /\ Len(msgs') = Len(msgs) + 1
                 /\ msgs'[Len(msgs')].conversation_id = c]_vars

\* the request of worker r commits a message in this step
Commits(r) == req[r].pc = "commit" /\ req'[r].pc # "commit" /\ Len(msgs') = Len(msgs) + 1

\* C11: every append that commits leaves the conversation's updated_at
\* strictly greater than it was before the commit, and not older than
\* created_at, whatever the order in which concurrent appends commit
C11_UpdatedAtIncreases ==
    [][\A r \in Workers :
          Commits(r) =>
              LET c == Val(req[r].conversation_id)
              IN  /\ convs'[c].updated_at > convs[c].updated_at
                  /\ convs'[c].updated_at >= convs'[c].created_at]_vars

\* the stored messages of conversation c (positions in the table)
MessagesOf(c) == {i \in 1 .. Len(msgs) : msgs[i].conversation_id = c}

\* the requests that got as far as appending to conversation c
Appenders(c) ==
    {r \in Workers : /\ req[r].conversation_id = Some(c)
                     /\ req[r].pc # "idle"
                     /\ ~(req[r].pc = "responded" /\ req[r].status = 404)}

-----------------------------------------------------------------------------
(* Properties of the model context *)

\* the messages conversation c held before the request in hand stored its own
\* user message (the last row of the table), oldest first
StoredBefore(c) ==
    LET old == SubSeq(msgs, 1, Len(msgs) - 1)
        rows == OrderAsc({i \in 1 .. Len(old) : old[i].conversation_id = c}, old)
    IN  [k \in 1 .. Len(rows) |-> old[rows[k]]]

\* the history entries of a model context: all but the system prompt and the
\* new user message
HistoryEntries(messages) == SubSeq(messages, 2, Len(messages) - 1)

\* C13: the history entries of the model context are the min(10, n) most
\* recent of the n messages stored before the request, oldest first
C13_ContextIsMostRecent ==
    (req[1].pc = "add_message" /\ req[1].role = "assistant") =>
        LET recent == LastN(StoredBefore(Val(req[1].conversation_id)), ContextWindow)
        IN  HistoryEntries(req[1].messages) =
                [k \in 1 .. Len(recent) |->
                    [role |-> recent[k].role, content |-> recent[k].content]]

-----------------------------------------------------------------------------
(* Properties of the chat handler's validation and errors *)

\* a message body that is empty, too long or all whitespace
Rejected(message) ==
    Len(message) = 0 \/ Len(message) > ChatMessageMax \/ NonSpace(message) = {}

\* worker r answers, in this step, the request it receives in this step
AnsweredAtOnce(r) == req[r].pc = "idle" /\ req'[r].pc = "responded"

\* C14: a POST whose message is empty, whitespace-only or longer than 5000
\* characters is answered 400 and changes nothing: no conversation, no
\* message, no model call, no tool call
C14_InvalidMessageRejected ==
    [][\A r \in Workers :
          (AnsweredAtOnce(r) /\ Rejected(req'[r].message)) =>
              /\ req'[r].status = 400
              /\ convs' = convs /\ msgs' = msgs /\ tasks' = tasks
              /\ req'[r].modelCalls = 0 /\ req'[r].tool_calls_data = << >>]_vars

\* worker r's request passes, in this step, the conversation lookup or creation
Accepted(r) == req[r].pc = "idle" /\ req'[r].pc = "add_message"

\* C15: an accepted POST without conversation_id creates exactly one
\* conversation, owned by the requester, and a 200 response carries its id;
\* an accepted POST naming a conversation of the requester creates none, and
\* when it returns 200 its user message and its assistant message are the
\* last two messages of that conversation, in this order, behind all the
\* messages that were there
C15_CreateOrAppend ==
    /\ [][\A r \in Workers :
             Accepted(r) =>
                 IF req'[r].given_id = None
                 THEN \E c \in DOMAIN convs' \ DOMAIN convs :
                         /\ DOMAIN convs' = DOMAIN convs \cup {c}
                         /\ \A d \in DOMAIN convs : convs'[d] = convs[d]
                         /\ convs'[c].user_id = req'[r].user
                         /\ req'[r].conversation_id = Some(c)
                 ELSE /\ convs' = convs
                      /\ req'[r].conversation_id = req'[r].given_id
                      /\ convs[Val(req'[r].given_id)].user_id = req'[r].user]_vars
    /\ [][\A r \in Workers :
             Commits(r) =>
                 /\ msgs' = Append(msgs, msgs'[Len(msgs')])
                 /\ msgs'[Len(msgs')].conversation_id = Val(req[r].conversation_id)
                 /\ \A i \in MessagesOf(Val(req[r].conversation_id)) :
                       msgs[i].created_at <= msgs'[Len(msgs')].created_at]_vars
    /\ [](\A r \in Workers :
             (req[r].pc = "responded" /\ req[r].status = 200) =>
                 LET c == Val(req[r].conversation_id)
                     all == get_conversation_messages(msgs, c, Len(msgs), 0)
                     n == Len(all)
                 IN  /\ req[r].conversation_id # None
                     /\ c \in DOMAIN convs /\ convs[c].user_id = req[r].user
                     /\ req[r].given_id # None => req[r].conversation_id = req[r].given_id
                     /\ n >= 2
                     /\ all[n - 1].role = "user" /\ all[n - 1].content = req[r].message
                     /\ all[n].role = "assistant" /\ all[n].content = Val(req[r].content)
                     /\ all[n - 1].user_id = req[r].user /\ all[n].user_id = req[r].user)

C15_Witness ==
    /\ req[1].pc = "responded" /\ req[1].status = 200
    /\ req[1].given_id = Some(1) /\ req[1].conversation_id = Some(1)
    /\ Cardinality(MessagesOf(1)) = ContextWindow + 2
    /\ msgs[ContextWindow].content = Numbered(ContextWindow)

\* the error details send_message itself chooses (lines 200, 206, 227, 339, 346)
HandlerDetails == {D_Empty, D_TooLong, D_ConvNotFound, D_Database, D_Failed}

\* C16: every error detail the handler of POST /api/chat returns is one of
\* its fixed natural-language strings, whatever exception occurred (the 422
\* of the request validation, answered before the handler runs, is left to C14)
C16_ErrorDetailsFixed ==
    \A r \in Workers :
        (req[r].pc = "responded" /\ req[r].status \notin {200, 422}) =>
            req[r].detail \in HandlerDetails

-----------------------------------------------------------------------------
(* Properties of the error translator *)

\* C17: translate_mcp_error returns, for every kind, the output of the first
\* row of the mapping table one of whose keywords the kind contains, whatever
\* the case of its letters, and the generic message when no row matches
C17_FirstMatchingRow ==
    LET table ==
            <<[keys |-> {Keyword.AUTHENTICATION, Keyword.UNAUTHORIZED}, out |-> M_Authentication],
              [keys |-> {Keyword.AUTHORIZATION, Keyword.FORBIDDEN}, out |-> M_Authorization],
              [keys |-> {Keyword.NOT_FOUND}, out |-> M_NotFound],
              [keys |-> {Keyword.VALIDATION, Keyword.BAD_REQUEST}, out |-> M_Validation],
              [keys |-> {Keyword.DATABASE, Keyword.CONNECTION}, out |-> M_Database]>>
        matching(kind) ==
            {k \in 1 .. Len(table) : \E key \in table[k].keys : Contains(key, Upper(kind))}
        first(kind) ==
            IF matching(kind) = {} THEN M_Generic ELSE table[SetMin(matching(kind))].out
    IN  translated # None => Val(translated).text = first(Val(translated).kind)

-----------------------------------------------------------------------------
(* Properties of the task operations' validation *)

\* the operation recorded by this step names a stored task of its own user
OnOwnTask ==
    /\ taskOp'.target = taskOp'.user
    /\ taskOp'.task_id # None /\ Val(taskOp'.task_id).wf
    /\ Val(taskOp'.task_id).id \in DOMAIN tasks
    /\ tasks[Val(taskOp'.task_id).id].user_id = taskOp'.user

\* the errors that stand for a Validation failure at each entry point
ValidationErrors(via) ==
    CASE via = "agent" -> {E_AlreadyCompleted, E_NoFields, E_TitleEmpty, E_TitleTooLong}
      [] via = "rest" -> {"ValidationError"}
      [] via = "mcp" -> {"ValidationError"}
      [] via = "hackathon" -> {"VALIDATION_ERROR"}

\* C18: complete_task on a task that is already completed fails with a
\* Validation error and leaves the task as it was, through TaskService and
\* through the complete_task tool handler
C18_CompleteTwiceFails ==
    [][(taskOp'.op = "complete_task" /\ OnOwnTask
          /\ tasks[Val(taskOp'.task_id).id].is_completed) =>
            /\ taskOp'.error \in ValidationErrors(taskOp'.via)
            /\ tasks' = tasks]_vars

\* C19: update_task given none of title, description and is_completed fails
\* with a Validation error and leaves the task as it was, through the agent's
\* TaskService, the REST TaskService and the MCP update_task_handler
C19_EmptyUpdateFails ==
    [][(taskOp'.op \in {"update_task", "update"} /\ taskOp'.via \in {"agent", "rest", "mcp"}
          /\ OnOwnTask /\ taskOp'.given = {}) =>
            /\ taskOp'.error \in ValidationErrors(taskOp'.via)
            /\ tasks' = tasks]_vars

\* page < 1, or page_size outside 1 .. 100
OutOfRange(paging) ==
    \/ paging.page # None /\ Val(paging.page) < 1
    \/ paging.page_size # None /\ (Val(paging.page_size) < 1 \/ Val(paging.page_size) > 100)

\* C20: a list_tasks call with page < 1 or page_size outside 1 .. 100 fails
\* with a Validation error and returns no tasks, and a call that omits both
\* is served with the defaults, through the agent's tool and the MCP handler
C20_PagingRejected ==
    [][(taskOp'.op = "list_tasks" /\ taskOp'.via \in {"agent", "mcp"}
          /\ taskOp'.user \in Users) =>
            /\ OutOfRange(taskOp'.paging) =>
                  /\ taskOp'.error \in ValidationErrors(taskOp'.via)
                  /\ taskOp'.returned = {}
            /\ taskOp'.paging = NoPaging => taskOp'.error = NoError]_vars

-----------------------------------------------------------------------------
(* Properties of task creation *)

\* C21: a creation that succeeds (the step that stores its task) stores one new task of the caller with the
\* trimmed title and the description it was given, is_completed = FALSE and
\* created_at = updated_at, and a get or a listing by the same owner returns it
C21_CreateThenGet ==
    [][(taskOp'.op \in {"add_task", "create"} /\ taskOp'.error = NoError /\ tasks' # tasks) =>
          \E id \in DOMAIN tasks' \ DOMAIN tasks :
              LET task == tasks'[id]
                  owner == taskOp'.user
              IN  /\ DOMAIN tasks' = DOMAIN tasks \cup {id}
                  /\ task.user_id = owner
                  /\ task.title = Strip(Val(taskOp'.in.title))
                  /\ task.description = taskOp'.in.description
                  /\ task.is_completed = FALSE
                  /\ task.created_at = task.updated_at
                  /\ taskOp'.returned = {id}
                  /\ rest_get_task(tasks', owner, id).ret = <<task_row(id, task)>>
                  /\ \E k \in 1 .. Len(get_tasks(tasks', owner, None, 1, 20).ret.tasks) :
                        get_tasks(tasks', owner, None, 1, 20).ret.tasks[k]
                            = task_to_dict(id, task)]_vars

-----------------------------------------------------------------------------
(* Properties of the GET routes *)

\* C22: GET /api/chat/{conversation_id} answers 403 when the conversation
\* exists and belongs to another user, and 404 when no conversation has that id
C22_DetailForbiddenOrNotFound ==
    [][(view' # view /\ view'.kind = "detail") =>
          LET c == Val(view'.conversation_id)
          IN  /\ (c \in DOMAIN convs /\ Owner(c) # view'.user) => view'.status = 403
              /\ c \notin DOMAIN convs => view'.status = 404]_vars

\* the pages of u's conversations taken at offsets 0, L, 2L, ... with limit L,
\* one after the other
Pages(u, L) ==
    LET count == (MaxConvs + L - 1) \div L
        page(k) == list_conversations(convs, u, L, (k - 1) * L).conversations
        concat[k \in 0 .. count] == IF k = 0 THEN << >> ELSE concat[k - 1] \o page(k)
    IN  concat[count]

\* C23: a GET /api/chat/conversations with limit L and offset o is answered
\* 200 with the o-th to (o+L-1)-th of the requester's conversations in
\* updated_at-descending order and with their number as total; so, with
\* nothing appended in between, the pages at offsets 0, L, 2L, ... are
\* disjoint and together hold each conversation of the requester once
C23_PagesPartition ==
    /\ [][(view' # view /\ view'.kind = "list") =>
             LET mine == {c \in DOMAIN convs : Owner(c) = view'.user}
                 all == OrderConvs(mine, convs)
             IN  /\ view'.status = 200
                 /\ view'.conversations = Page(all, view'.offset, view'.limit)
                 /\ view'.total = Cardinality(mine)]_vars
    /\ [](\A u \in Users, L \in 1 .. MaxConvs :
             LET all == Pages(u, L)
             IN  /\ \A i, j \in 1 .. Len(all) : i # j => all[i] # all[j]
                 /\ {all[i] : i \in 1 .. Len(all)} = {c \in DOMAIN convs : Owner(c) = u}
                 /\ \A i \in 1 .. Len(all) - 1 :
                       convs[all[i]].updated_at >= convs[all[i + 1]].updated_at)

-----------------------------------------------------------------------------
(* Properties of the rate limiter *)

\* the POSTs on record that were counted against bucket `key` in the window
\* of window_seconds that ends at reading t
CountedInWindow(log, key, t) ==
    {i \in 1 .. Len(log) : /\ log[i].key = key
                           /\ log[i].outcome = "counted"
                           /\ log[i].at > t - WindowSeconds
                           /\ log[i].at <= t}

\* the POST the middleware takes in this step
Arrives == Len(limiter'.log) = Len(limiter.log) + 1
Arrival == limiter'.log[Len(limiter'.log)]

\* C24: no bucket has more than rate_limit POSTs admitted within any window
\* of window_seconds, and a POST that finds its bucket full is answered 429
\* without reaching the chat handler
C24_WindowLimit ==
    /\ [](\A i \in 1 .. Len(limiter.log) :
             Len(limiter.log[i].key) > 0 =>
                 Cardinality(CountedInWindow(limiter.log, limiter.log[i].key,
                                             limiter.log[i].at)) <= RateLimit)
    /\ [][(/\ Arrives
           /\ Len(Arrival.key) > 0
           /\ Cardinality(CountedInWindow(limiter.log, Arrival.key, Arrival.at)) >= RateLimit) =>
             /\ Arrival.outcome = "limited"
             /\ req'[1].pc = "responded" /\ req'[1].status = 429
             /\ req'[1].modelCalls = 0
             /\ convs' = convs /\ msgs' = msgs /\ tasks' = tasks]_vars

\* C25: a POST is turned away by the limiter only when its own user has
\* filled the window, and the POSTs of two different users are never counted
\* in the same bucket
C25_BucketsPerUser ==
    /\ [][(Arrives /\ Arrival.outcome = "limited") =>
             Cardinality({i \in CountedInWindow(limiter.log, Arrival.key, Arrival.at) :
                             limiter.log[i].user = Arrival.user}) >= RateLimit]_vars
    /\ [](\A i, j \in 1 .. Len(limiter.log) :
             (/\ limiter.log[i].outcome # "forwarded"
              /\ limiter.log[j].outcome # "forwarded"
              /\ limiter.log[i].user \in Users
              /\ limiter.log[j].user \in Users
              /\ limiter.log[i].user # limiter.log[j].user) =>
                 limiter.log[i].key # limiter.log[j].key)

\* C30: every POST on /api/chat whose credential the authentication layer
\* accepts, whichever carrier holds it, is counted against a bucket or turned
\* away by the limiter; none is passed on uncounted
C30_NoCarrierBypasses ==
    [][(Arrives /\ Arrival.user \in Users) =>
          Arrival.outcome \in {"counted", "limited"}]_vars

-----------------------------------------------------------------------------
(* Properties of the assistant message *)

\* C26: a request whose process_user_message returned normally (and whose
\* database commit did not fail) is answered 200 and has stored exactly one
\* assistant message, carrying the returned content and tool-call records
C26_AssistantMessageStored ==
    \A r \in Workers :
        (req[r].pc = "responded" /\ Returned(r) /\ req[r].detail # D_Database) =>
            /\ req[r].status = 200
            /\ Cardinality(StoredAssistantMessages(r)) = 1
            /\ \A i \in StoredAssistantMessages(r) :
                  /\ msgs[i].content = Val(req[r].content)
                  /\ msgs[i].tool_calls = IF Len(req[r].tool_calls_data) > 0
                                          THEN Some(req[r].tool_calls_data) ELSE None

-----------------------------------------------------------------------------
(* Properties of the task operations on foreign tasks *)

\* C27: update_task or delete_task addressed at a stored task of another
\* user fails with the error that a task id naming no task gets (NotFound)
\* and changes nothing, in the REST routes and in the MCP tool handlers
C27_ForeignTaskNotFound ==
    [][(/\ taskOp'.op \in {"update_task", "update", "delete_task", "delete"}
        /\ taskOp'.via \in {"rest", "mcp", "hackathon"}
        /\ taskOp'.user \in Users /\ taskOp'.target = taskOp'.user
        /\ taskOp'.task_id # None /\ Val(taskOp'.task_id).wf
        /\ Val(taskOp'.task_id).id \in DOMAIN tasks
        /\ tasks[Val(taskOp'.task_id).id].user_id # taskOp'.user) =>
          /\ taskOp'.error = (IF taskOp'.via = "hackathon" THEN "NOT_FOUND" ELSE "NotFoundError")
          /\ tasks' = tasks]_vars


-----------------------------------------------------------------------------
(* Properties of the tool calls of the Hackathon chat agent *)

\* the arguments of a recorded tool call pass the handler's validation
ValidArguments(o) ==
    /\ o.op = "add_task" => o.in.title # None /\ Len(Strip(Val(o.in.title))) > 0
    /\ o.op \in {"update_task", "complete_task", "delete_task"} =>
           o.task_id # None /\ Val(o.task_id).wf

\* C28: a tool call the Hackathon chat agent issues through MCPClient.call_tool
\* with valid arguments is executed for the user and is not rejected with
\* AUTH_ERROR.
C28_AgentCallAuthenticated ==
    taskOp.via = "hackathon_agent" /\ ValidArguments(taskOp) => taskOp.error # "AUTH_ERROR"


\* the conversations of user u
ConversationsOf(u) == {c \in DOMAIN convs : convs[c].user_id = u}

\* C29: load_or_create_conversation never leaves a user with more than one
\* conversation, also when two chat requests of a user without a conversation
\* run concurrently.
C29_OneConversationPerUser == \A u \in Users : Cardinality(ConversationsOf(u)) <= 1

=============================================================================
